---- MODULE Spec2Model ----
(***************************************************************************)
(* A model of shhh (github.com/cychiuae/shhh): the secret-encryption       *)
(* engine (format parsers, value markers, the full-file envelope), the     *)
(* GPG provider backends and their fallback composition.                   *)
(*                                                                         *)
(* Go strings and byte slices are sequences of byte codes (0..255), so     *)
(* that quoting, trimming, base64 and the marker pattern are computed and  *)
(* not assumed.                                                            *)
(***************************************************************************)
EXTENDS Integers, Sequences, FiniteSets, TLC

VARIABLES
    defaultProvider,  \* crypto.defaultProvider: the process-wide provider handle
    cliKeyring,       \* the keys the external gpg program can see
    diskKeyring,      \* what NativeGPG.loadKeyring finds in GNUPGHOME
    call,             \* the provider call in progress: arguments, backend calls, result
    run,              \* the engine call in progress: the file, the options, the result
    worktree,         \* the registered file of the project and its copies on disk
    store,            \* the project's .shhh directory: vault directories, registries, config
    goroutines        \* the GetProvider calls that run in parallel, each at its step

vars == <<defaultProvider, cliKeyring, diskKeyring, call, run, worktree, store, goroutines>>

---------------------------------------------------------------------------
(* Text *)

\* byte codes of the printable characters that can be written as a TLA+ string
Ord ==
    "!" :> 33 @@ "#" :> 35 @@ "$" :> 36 @@ "%" :> 37 @@ "&" :> 38 @@ "'" :> 39 @@ "+" :> 43 @@
    "," :> 44 @@ "-" :> 45 @@ "." :> 46 @@ "/" :> 47 @@ "0" :> 48 @@ "1" :> 49 @@ "2" :> 50 @@
    "3" :> 51 @@ "4" :> 52 @@ "5" :> 53 @@ "6" :> 54 @@ "7" :> 55 @@ "8" :> 56 @@ "9" :> 57 @@
    ":" :> 58 @@ ";" :> 59 @@ "<" :> 60 @@ "=" :> 61 @@ ">" :> 62 @@ "?" :> 63 @@ "@" :> 64 @@
    "A" :> 65 @@ "B" :> 66 @@ "C" :> 67 @@ "D" :> 68 @@ "E" :> 69 @@ "F" :> 70 @@ "G" :> 71 @@
    "H" :> 72 @@ "I" :> 73 @@ "J" :> 74 @@ "K" :> 75 @@ "L" :> 76 @@ "M" :> 77 @@ "N" :> 78 @@
    "O" :> 79 @@ "P" :> 80 @@ "Q" :> 81 @@ "R" :> 82 @@ "S" :> 83 @@ "T" :> 84 @@ "U" :> 85 @@
    "V" :> 86 @@ "W" :> 87 @@ "X" :> 88 @@ "Y" :> 89 @@ "Z" :> 90 @@ "[" :> 91 @@ "]" :> 93 @@
    "_" :> 95 @@ "a" :> 97 @@ "b" :> 98 @@ "c" :> 99 @@ "d" :> 100 @@
    "e" :> 101 @@ "f" :> 102 @@ "g" :> 103 @@ "h" :> 104 @@ "i" :> 105 @@ "j" :> 106 @@ "k" :> 107 @@
    "l" :> 108 @@ "m" :> 109 @@ "n" :> 110 @@ "o" :> 111 @@ "p" :> 112 @@ "q" :> 113 @@ "r" :> 114 @@
    "s" :> 115 @@ "t" :> 116 @@ "u" :> 117 @@ "v" :> 118 @@ "w" :> 119 @@ "x" :> 120 @@ "y" :> 121 @@
    "z" :> 122 @@ "{" :> 123 @@ "|" :> 124 @@ "}" :> 125 @@ "~" :> 126

\* byte codes of the characters that cannot
Ch == [tab |-> 9, nl |-> 10, vt |-> 11, ff |-> 12, cr |-> 13, sp |-> 32,
       dq |-> 34, sq |-> 39, lp |-> 40, rp |-> 41, star |-> 42, bs |-> 92]

\* T(<<"a","b">>) is the Go string "ab"
T(s) == [i \in 1..Len(s) |-> Ord[s[i]]]

Empty == << >>

RECURSIVE Concat(_)
\* the concatenation of a sequence of texts
Concat(ts) == IF ts = << >> THEN << >> ELSE Head(ts) \o Concat(Tail(ts))

\* strings.ToLower on ASCII
ToLower(s) == [i \in 1..Len(s) |-> IF s[i] >= 65 /\ s[i] <= 90 THEN s[i] + 32 ELSE s[i]]

\* strings.ToUpper on ASCII
ToUpper(s) == [i \in 1..Len(s) |-> IF s[i] >= 97 /\ s[i] <= 122 THEN s[i] - 32 ELSE s[i]]

\* unicode.IsSpace on ASCII, as strings.TrimSpace uses it
IsSpace(c) == c \in {9, 10, 11, 12, 13, 32}

RECURSIVE TrimLeft(_)
TrimLeft(s) == IF s # << >> /\ IsSpace(Head(s)) THEN TrimLeft(Tail(s)) ELSE s

RECURSIVE TrimRight(_)
TrimRight(s) ==
    IF s # << >> /\ IsSpace(s[Len(s)]) THEN TrimRight(SubSeq(s, 1, Len(s) - 1)) ELSE s

\* strings.TrimSpace
TrimSpace(s) == TrimRight(TrimLeft(s))

\* strings.HasPrefix
HasPrefix(s, p) == Len(s) >= Len(p) /\ SubSeq(s, 1, Len(p)) = p

\* strings.Index(s, c) for a single byte c, 1-based; 0 when c does not occur
IndexByte(s, c) ==
    IF \E i \in 1..Len(s) : s[i] = c
    THEN CHOOSE i \in 1..Len(s) : s[i] = c /\ \A j \in 1..(i - 1) : s[j] # c
    ELSE 0

\* strings.LastIndex for a single byte, 1-based; 0 when c does not occur
LastIndexByte(s, c) ==
    IF \E i \in 1..Len(s) : s[i] = c
    THEN CHOOSE i \in 1..Len(s) : s[i] = c /\ \A j \in (i + 1)..Len(s) : s[j] # c
    ELSE 0

\* strings.Contains(s, sub)
Contains(s, sub) == \E i \in 1..(Len(s) - Len(sub) + 1) : SubSeq(s, i, i + Len(sub) - 1) = sub

RECURSIVE Split(_, _)
\* strings.Split(s, sep) for a single-byte separator: always at least one piece
Split(s, c) ==
    LET i == IndexByte(s, c)
    IN  IF i = 0 THEN <<s>>
        ELSE <<SubSeq(s, 1, i - 1)>> \o Split(SubSeq(s, i + 1, Len(s)), c)

RECURSIVE Join(_, _)
\* strings.Join
Join(ts, sep) ==
    IF ts = << >> THEN << >>
    ELSE IF Len(ts) = 1 THEN ts[1]
    ELSE ts[1] \o sep \o Join(Tail(ts), sep)

\* strings.ReplaceAll(s, c, "") for a single byte c
RemoveByte(s, c) == SelectSeq(s, LAMBDA x : x # c)

---------------------------------------------------------------------------
(* encoding/base64, StdEncoding *)

\* the base64 character of a 6-bit value
B64Char(n) ==
    IF n < 26 THEN 65 + n
    ELSE IF n < 52 THEN 71 + n
    ELSE IF n < 62 THEN n - 4
    ELSE IF n = 62 THEN 43 ELSE 47

\* the characters of the base64 alphabet, without the padding character
IsB64(c) == (c >= 65 /\ c <= 90) \/ (c >= 97 /\ c <= 122) \/ (c >= 48 /\ c <= 57) \/ c \in {43, 47}

\* the 6-bit value of a base64 character
B64Val(c) ==
    IF c >= 65 /\ c <= 90 THEN c - 65
    ELSE IF c >= 97 /\ c <= 122 THEN c - 71
    ELSE IF c >= 48 /\ c <= 57 THEN c + 4
    ELSE IF c = 43 THEN 62 ELSE 63

\* base64.StdEncoding.EncodeToString: three bytes to four characters, "=" padding
Base64Encode(b) ==
    LET n == Len(b)
        at(j) == IF j <= n THEN b[j] ELSE 0
        char(i) ==
            LET g == 3 * ((i - 1) \div 4)
            IN  IF i % 4 = 1 THEN B64Char(at(g + 1) \div 4)
                ELSE IF i % 4 = 2 THEN B64Char((at(g + 1) % 4) * 16 + at(g + 2) \div 16)
                ELSE IF i % 4 = 3
                THEN IF g + 2 > n THEN 61
                     ELSE B64Char((at(g + 2) % 16) * 4 + at(g + 3) \div 64)
                ELSE IF g + 3 > n THEN 61 ELSE B64Char(at(g + 3) % 64)
    IN  [i \in 1..(4 * ((n + 2) \div 3)) |-> char(i)]

\* the groups of four characters of s: every character is of the alphabet,
\* but that the last group may end in "=" or "=="; then the bytes they stand for
B64Quanta(s) ==
    LET n == Len(s)
        pad == IF n > 0 /\ s[n] = 61 THEN (IF s[n - 1] = 61 THEN 2 ELSE 1) ELSE 0
        byte(i) ==
            LET g == 4 * ((i - 1) \div 3)
            IN  IF i % 3 = 1 THEN B64Val(s[g + 1]) * 4 + B64Val(s[g + 2]) \div 16
                ELSE IF i % 3 = 2
                THEN (B64Val(s[g + 2]) % 16) * 16 + B64Val(s[g + 3]) \div 4
                ELSE (B64Val(s[g + 3]) % 4) * 64 + B64Val(s[g + 4])
    IN  IF \A i \in 1..(n - pad) : IsB64(s[i])
        THEN [ok |-> TRUE, data |-> [i \in 1..(3 * (n \div 4) - pad) |-> byte(i)]]
        ELSE [ok |-> FALSE, data |-> << >>]

\* base64.StdEncoding.DecodeString: "\r" and "\n" are ignored, anything else
\* outside the alphabet, or wrong padding, is an error
Base64Decode(s) ==
    LET c == RemoveByte(RemoveByte(s, 13), 10)
    IN  IF Len(c) % 4 # 0 THEN [ok |-> FALSE, data |-> << >>] ELSE B64Quanta(c)

---------------------------------------------------------------------------
(* OpenPGP messages and keys, as the two backends produce and read them *)

\* the e-mail addresses of the model; each of the first two has one key pair
Alice == T(<<"a", "@", "t", ".", "c", "o">>)
Bob   == T(<<"b", "@", "t", ".", "c", "o">>)
Carol == T(<<"c", "@", "t", ".", "c", "o">>)

\* the key pairs that exist, by key id
KeyEmail == <<Alice, Bob>>
KeyIds == DOMAIN KeyEmail

\* openpgp.Entity: a key with one identity; priv says if the private key is there
Entity(k, priv) == [key |-> k, email |-> KeyEmail[k], priv |-> priv]

\* the first line of an armored block
ArmorHead == T(<<"-", "-", "-", "-", "-">>)

\* the byte after the armor head that says what the block holds
BlockType == [message |-> 1, publicKey |-> 2]

\* a multi-recipient message: one session-key packet per recipient key, then
\* the data under the session key (here: the nonce)
PGPMessage(data, keys, nonce) ==
    ArmorHead \o <<BlockType.message, Len(keys)>> \o keys \o <<nonce>>
    \o [i \in 1..Len(data) |-> (data[i] + 100 + nonce) % 256]

\* armor.Decode finds an armored block
ArmorOK(data) == HasPrefix(data, ArmorHead)

\* the packets after the armor are those of a message
MessageOK(data) ==
    /\ Len(data) >= Len(ArmorHead) + 2
    /\ data[Len(ArmorHead) + 1] = BlockType.message
    /\ Len(data) >= Len(ArmorHead) + 3 + data[Len(ArmorHead) + 2]

\* the key ids a message is addressed to
MessageKeys(data) ==
    LET n == data[Len(ArmorHead) + 2]
    IN  {data[Len(ArmorHead) + 2 + i] : i \in 1..n}

\* the data of a message, for a holder of an addressed private key
MessageData(data) ==
    LET n == data[Len(ArmorHead) + 2]
        at == Len(ArmorHead) + 3 + n
        nonce == data[at]
    IN  [i \in 1..(Len(data) - at) |-> (data[at + i] + 156 + 256 - nonce) % 256]

\* an armored public key block of key k
ArmoredKey(k) == ArmorHead \o <<BlockType.publicKey, k>>

\* an armored block that holds no key
ArmoredNothing == ArmorHead \o <<BlockType.publicKey>>

\* the packets after the armor are those of a key ring
KeyBlockOK(data) ==
    /\ Len(data) >= Len(ArmorHead) + 1
    /\ data[Len(ArmorHead) + 1] = BlockType.publicKey
    /\ \A i \in (Len(ArmorHead) + 2)..Len(data) : data[i] \in KeyIds

\* the outcome of a provider call: err is "nil" or the error, out the bytes and
\* key the KeyInfo returned, calls the backend calls made, in order
NoKey == [email |-> Empty, key |-> 0]
Ok(out, key) == [err |-> "nil", out |-> out, key |-> key]
Err(e) == [err |-> e, out |-> Empty, key |-> NoKey]

---------------------------------------------------------------------------
(* The built-in backend: NativeGPG, over its in-process keyring kr *)

\* the entities of kr that have an identity with this e-mail, in keyring order
Matching(kr, email) == SelectSeq(kr, LAMBDA e : ToLower(e.email) = ToLower(email))

\* NativeGPG.entityToKeyInfo; ser is FALSE when armoring or serializing fails
EntityToKeyInfo(entity, email, ser) ==
    IF ~ser THEN Err("SerializeError")
    ELSE Ok(ArmoredKey(entity.key), [email |-> email, key |-> entity.key])

\* NativeGPG.LookupKey
NativeLookupKey(kr, email, ser) ==
    IF Matching(kr, email) # << >>
    THEN EntityToKeyInfo(Matching(kr, email)[1], ToLower(email), ser)
    ELSE Err("ErrKeyNotFound")

\* NativeGPG.GetPublicKey
NativeGetPublicKey(kr, email, ser) ==
    LET info == NativeLookupKey(kr, email, ser)
    IN  IF info.err # "nil" THEN info ELSE Ok(info.out, NoKey)

\* NativeGPG.Encrypt as it would be if an unresolved recipient were skipped
NativeEncrypt_SkipUnresolved(kr, data, recipients, nonce) ==
    LET found == SelectSeq(recipients, LAMBDA r : Matching(kr, r) # << >>)
    IN  IF Len(found) = 0 THEN Err("NoValidRecipients")
        ELSE Ok(PGPMessage(data, [i \in 1..Len(found) |-> Matching(kr, found[i])[1].key],
                           nonce), NoKey)

\* NativeGPG.Encrypt: every recipient is resolved before anything is encrypted
NativeEncrypt(kr, data, recipients, nonce) ==
    IF \E i \in 1..Len(recipients) : Matching(kr, recipients[i]) = << >>
    THEN Err("RecipientNotFound")
    ELSE IF Len(recipients) = 0 THEN Err("NoValidRecipients")
    ELSE Ok(PGPMessage(data,
                       [i \in 1..Len(recipients) |-> Matching(kr, recipients[i])[1].key],
                       nonce), NoKey)

\* the private keys of a keyring
PrivateKeys(kr) == {kr[i].key : i \in {j \in 1..Len(kr) : kr[j].priv}}

\* NativeGPG.Decrypt
NativeDecrypt(kr, data) ==
    IF ~ArmorOK(data) THEN Err("ArmorError")
    ELSE IF PrivateKeys(kr) = {} THEN Err("ErrNoPrivateKey")
    ELSE IF ~MessageOK(data) \/ MessageKeys(data) \cap PrivateKeys(kr) = {}
         THEN Err("ReadError")
    ELSE Ok(MessageData(data), NoKey)

\* NativeGPG.ImportPublicKey: the result
NativeImportPublicKey(kr, armoredKey, ser) ==
    IF ~ArmorOK(armoredKey) THEN Err("ArmorError")
    ELSE IF ~KeyBlockOK(armoredKey) THEN Err("ReadError")
    ELSE IF Len(armoredKey) = Len(ArmorHead) + 1 THEN Err("ErrInvalidKey")
    ELSE LET k == armoredKey[Len(ArmorHead) + 2]
         IN  EntityToKeyInfo(Entity(k, FALSE), KeyEmail[k], ser)

\* NativeGPG.ImportPublicKey: the keyring afterwards (the entity is appended
\* before entityToKeyInfo runs)
NativeImportKeyring(kr, armoredKey) ==
    IF ArmorOK(armoredKey) /\ KeyBlockOK(armoredKey) /\ Len(armoredKey) > Len(ArmorHead) + 1
    THEN Append(kr, Entity(armoredKey[Len(ArmorHead) + 2], FALSE))
    ELSE kr

---------------------------------------------------------------------------
(* The shell-out backend: CLIGPG, one gpg process per call.  ck is the set  *)
(* of entities gpg finds in its own key store; up is FALSE when the gpg     *)
(* process cannot be run or exits with another failure.                     *)

CliMatching(ck, email) == {e \in ck : ToLower(e.email) = ToLower(email)}

\* CLIGPG.LookupKey with parseKeyOutput
CLILookupKey(ck, up, email) ==
    IF ~up THEN Err("GpgFailed")
    ELSE IF CliMatching(ck, email) = {} THEN Err("ErrKeyNotFound")
    ELSE Ok(Empty, [email |-> email, key |-> (CHOOSE e \in CliMatching(ck, email) : TRUE).key])

\* CLIGPG.GetPublicKey
CLIGetPublicKey(ck, up, email) ==
    IF ~up THEN Err("GpgFailed")
    ELSE IF CliMatching(ck, email) = {} THEN Err("ErrKeyNotFound")
    ELSE Ok(ArmoredKey((CHOOSE e \in CliMatching(ck, email) : TRUE).key), NoKey)

\* CLIGPG.Encrypt
CLIEncrypt(ck, up, data, recipients, nonce) ==
    IF ~up \/ Len(recipients) = 0
       \/ \E i \in 1..Len(recipients) : CliMatching(ck, recipients[i]) = {}
    THEN Err("GpgFailed")
    ELSE Ok(PGPMessage(data,
                       [i \in 1..Len(recipients) |->
                           (CHOOSE e \in CliMatching(ck, recipients[i]) : TRUE).key],
                       nonce), NoKey)

\* CLIGPG.Decrypt
CLIDecrypt(ck, up, data) ==
    IF ~up \/ ~ArmorOK(data) \/ ~MessageOK(data) THEN Err("GpgFailed")
    ELSE IF MessageKeys(data) \cap {e.key : e \in {x \in ck : x.priv}} = {}
         THEN Err("ErrNoPrivateKey")
    ELSE Ok(MessageData(data), NoKey)

\* gpg --import accepts the block
CliImportOK(up, armoredKey) ==
    up /\ ArmorOK(armoredKey) /\ KeyBlockOK(armoredKey) /\ Len(armoredKey) > Len(ArmorHead) + 1

\* CLIGPG.ImportPublicKey: the key store afterwards
CLIImportKeyring(ck, up, armoredKey) ==
    IF CliImportOK(up, armoredKey) /\ CliMatching(ck, KeyEmail[armoredKey[Len(ArmorHead) + 2]]) = {}
    THEN ck \cup {Entity(armoredKey[Len(ArmorHead) + 2], FALSE)}
    ELSE ck

\* CLIGPG.ImportPublicKey: the result
CLIImportPublicKey(ck, up, armoredKey) ==
    IF ~CliImportOK(up, armoredKey) THEN Err("GpgFailed")
    ELSE CLILookupKey(CLIImportKeyring(ck, up, armoredKey), up,
                      KeyEmail[armoredKey[Len(ArmorHead) + 2]])

---------------------------------------------------------------------------
(* fallbackProvider: the built-in backend first, the shell-out backend      *)
(* second.  Each operator gives the result, the primary's own result and    *)
(* the backends called, in order.                                           *)

Only(primary) == [res |-> primary, primary |-> primary, calls |-> <<"primary">>]
Then(primary, fallback) ==
    [res |-> fallback, primary |-> primary, calls |-> <<"primary", "fallback">>]

\* fallbackProvider.LookupKey as it would be if it fell back on any error
FallbackLookupKey_AnyError(kr, ck, up, ser, email) ==
    LET p == NativeLookupKey(kr, email, ser)
    IN  IF p.err = "nil" THEN Only(p) ELSE Then(p, CLILookupKey(ck, up, email))

\* fallbackProvider.LookupKey
FallbackLookupKey(kr, ck, up, ser, email) ==
    LET p == NativeLookupKey(kr, email, ser)
    IN  IF p.err = "nil" THEN Only(p)
        ELSE IF p.err # "ErrKeyNotFound" THEN Only(p)
        ELSE Then(p, CLILookupKey(ck, up, email))

\* fallbackProvider.GetPublicKey
FallbackGetPublicKey(kr, ck, up, ser, email) ==
    LET p == NativeGetPublicKey(kr, email, ser)
    IN  IF p.err = "nil" THEN Only(p) ELSE Then(p, CLIGetPublicKey(ck, up, email))

\* fallbackProvider.Encrypt
FallbackEncrypt(kr, ck, up, data, recipients, nonce) ==
    LET p == NativeEncrypt(kr, data, recipients, nonce)
    IN  IF p.err = "nil" THEN Only(p)
        ELSE Then(p, CLIEncrypt(ck, up, data, recipients, nonce))

\* fallbackProvider.Decrypt as it would be if it fell back on any error
FallbackDecrypt_AnyError(kr, ck, up, data) ==
    LET p == NativeDecrypt(kr, data)
    IN  IF p.err = "nil" THEN Only(p) ELSE Then(p, CLIDecrypt(ck, up, data))

\* fallbackProvider.Decrypt
FallbackDecrypt(kr, ck, up, data) ==
    LET p == NativeDecrypt(kr, data)
    IN  IF p.err = "nil" THEN Only(p)
        ELSE IF p.err = "ErrNoPrivateKey" THEN Then(p, CLIDecrypt(ck, up, data))
        ELSE Only(p)

\* fallbackProvider.ImportPublicKey
FallbackImportPublicKey(kr, ck, up, ser, armoredKey) ==
    LET p == NativeImportPublicKey(kr, armoredKey, ser)
    IN  IF p.err = "nil" THEN Only(p)
        ELSE Then(p, CLIImportPublicKey(ck, up, armoredKey))

---------------------------------------------------------------------------
(* GPGProvider values and the process-wide handle *)

\* a provider: kind "nil" is the nil interface value; a "native" provider is
\* a *NativeGPG and a "fallback" provider a *fallbackProvider whose primary
\* has the keyring (its fallback, a CLIGPG, has no fields)
NilProvider == [kind |-> "nil", keyring |-> << >>]
NativeProvider(kr) == [kind |-> "native", keyring |-> kr]
FallbackProvider(kr) == [kind |-> "fallback", keyring |-> kr]

\* GetProvider as it would be if it composed a new Fallback Provider on every call
GetProvider_Fresh(handle, disk) == FallbackProvider(disk)

\* GetProvider: the handle, or a new fallbackProvider over NewNativeGPG() (which
\* loads the keyring found on disk) and NewCLIGPG()
GetProvider(handle, disk) ==
    IF handle.kind = "nil" THEN FallbackProvider(disk) ELSE handle

\* SetProvider
SetProviderValue(p) == p

\* the interface calls, dispatched on the dynamic type of the provider
ProviderLookupKey(p, ck, up, ser, email) ==
    IF p.kind = "native" THEN Only(NativeLookupKey(p.keyring, email, ser))
    ELSE FallbackLookupKey(p.keyring, ck, up, ser, email)

ProviderGetPublicKey(p, ck, up, ser, email) ==
    IF p.kind = "native" THEN Only(NativeGetPublicKey(p.keyring, email, ser))
    ELSE FallbackGetPublicKey(p.keyring, ck, up, ser, email)

ProviderEncrypt(p, ck, up, data, recipients, nonce) ==
    IF p.kind = "native" THEN Only(NativeEncrypt(p.keyring, data, recipients, nonce))
    ELSE FallbackEncrypt(p.keyring, ck, up, data, recipients, nonce)

ProviderDecrypt(p, ck, up, data) ==
    IF p.kind = "native" THEN Only(NativeDecrypt(p.keyring, data))
    ELSE FallbackDecrypt(p.keyring, ck, up, data)

ProviderImportPublicKey(p, ck, up, ser, armoredKey) ==
    IF p.kind = "native" THEN Only(NativeImportPublicKey(p.keyring, armoredKey, ser))
    ELSE FallbackImportPublicKey(p.keyring, ck, up, ser, armoredKey)

---------------------------------------------------------------------------
(* The value marker: parser.go, and EncryptValue / DecryptValue *)

EncPrefix == T(<<"E", "N", "C", "[", "v", "1", ":">>)
EncSuffix == T(<<"]">>)

\* the character class [A-Za-z0-9+/=\s] of encPattern
IsPayloadChar(c) == IsB64(c) \/ c = 61 \/ c \in {9, 10, 12, 13, 32}

\* the submatch of encPattern: the text between the prefix and the final "]"
Payload(value) == SubSeq(value, Len(EncPrefix) + 1, Len(value) - 1)

\* parser.IsEncrypted: encPattern matches the whole value
IsEncrypted(value) ==
    /\ HasPrefix(value, EncPrefix)
    /\ Len(value) >= Len(EncPrefix) + 2
    /\ value[Len(value)] = EncSuffix[1]
    /\ \A i \in (Len(EncPrefix) + 1)..(Len(value) - 1) : IsPayloadChar(value[i])

\* parser.DecodeValue
DecodeValue(encoded) ==
    IF ~IsEncrypted(encoded) THEN [ok |-> FALSE, data |-> Empty]
    ELSE [ok |-> TRUE, data |-> RemoveByte(RemoveByte(Payload(encoded), 10), 32)]

Local(res) == [res |-> res, primary |-> Err("nil"), calls |-> << >>]

\* crypto.EncryptValue under provider p (with the backends' results and calls)
EncryptValue(p, ck, up, plaintext, recipients, nonce) ==
    LET Encoded(e) ==
            IF e.res.err # "nil" THEN e
            ELSE [e EXCEPT !.res = Ok(EncPrefix \o Base64Encode(e.res.out) \o EncSuffix, NoKey)]
    IN  IF Len(recipients) = 0 THEN Local(Err("NoRecipients"))
        ELSE Encoded(ProviderEncrypt(p, ck, up, plaintext, recipients, nonce))

\* crypto.DecryptValue under provider p (with the backends' results and calls)
DecryptValue(p, ck, up, encoded) ==
    LET data == DecodeValue(encoded)
        decoded == Base64Decode(data.data)
    IN  IF ~IsEncrypted(encoded) THEN Local(Ok(encoded, NoKey))
        ELSE IF ~data.ok THEN Local(Err("InvalidFormat"))
        ELSE IF ~decoded.ok THEN Local(Err("Base64Error"))
        ELSE ProviderDecrypt(p, ck, up, decoded.data)

---------------------------------------------------------------------------
(* The transform a parser is given, and what a pass over a document returns *)

\* encryptFunc of encryptValuesFile: EncryptValue to the recipients under the
\* provider; nonce is the randomness of the first encryption of the pass
EncryptFunc(p, ck, up, recipients, nonce) ==
    [encrypting |-> TRUE, p |-> p, ck |-> ck, up |-> up, recipients |-> recipients,
     nonce |-> nonce]

\* DecryptValue, as decryptValuesFile passes it to the parser
DecryptFunc(p, ck, up) ==
    [encrypting |-> FALSE, p |-> p, ck |-> ck, up |-> up, recipients |-> << >>, nonce |-> 0]

\* the transform called on value, after n earlier calls in the same pass
Transform(tr, value, n) ==
    IF tr.encrypting
    THEN EncryptValue(tr.p, tr.ck, tr.up, value, tr.recipients, tr.nonce + n)
    ELSE DecryptValue(tr.p, tr.ck, tr.up, value)

\* the record of one transform call: its argument, the backend calls it made
\* and the error it returned
Called(value, r) == [arg |-> value, backend |-> r.calls, err |-> r.res.err]

\* the result of a pass: the output, the transform calls made in order, the error
Pass(out, calls, err) == [out |-> out, calls |-> calls, err |-> err]

---------------------------------------------------------------------------
(* ENV files: ENVParser *)

\* bufio.Scanner with ScanLines: lines end at "\n", one trailing "\r" is
\* dropped, and what follows the last "\n" is a line only if it is not empty
ScanLines(content) ==
    LET parts == Split(content, Ch.nl)
        ls == IF parts[Len(parts)] = Empty THEN SubSeq(parts, 1, Len(parts) - 1) ELSE parts
    IN  [i \in 1..Len(ls) |->
            IF ls[i] # Empty /\ ls[i][Len(ls[i])] = Ch.cr
            THEN SubSeq(ls[i], 1, Len(ls[i]) - 1) ELSE ls[i]]

\* every line written with a "\n" after it
WriteLines(lines) == Concat([i \in 1..Len(lines) |-> lines[i] \o <<Ch.nl>>])

unquoteValue(value) ==
    LET v == TrimSpace(value)
    IN  IF /\ Len(v) >= 2
           /\ \/ v[1] = Ch.dq /\ v[Len(v)] = Ch.dq
              \/ v[1] = Ch.sq /\ v[Len(v)] = Ch.sq
        THEN [value |-> SubSeq(v, 2, Len(v) - 1), wasQuoted |-> TRUE, quoteChar |-> v[1]]
        ELSE [value |-> v, wasQuoted |-> FALSE, quoteChar |-> 0]

\* space, tab, the two quotes, "#", "$", backslash, newline; or nothing at all
needsQuoting(value) ==
    \/ value = Empty
    \/ \E i \in 1..Len(value) :
           value[i] \in {Ch.sp, Ch.tab, Ch.dq, Ch.sq, 35, 36, Ch.bs, Ch.nl}

quoteValue(value, quote, quoteChar) ==
    IF ~quote /\ ~needsQuoting(value) THEN value
    ELSE LET q == IF quoteChar = 0 THEN Ch.dq ELSE quoteChar
         IN  <<q>> \o value \o <<q>>

\* the prefix of the metadata lines of an ENV file
ShhhEnvPrefix == T(<<"_", "S", "H", "H", "H", "_">>)

\* ENVParser.processLine, as the n-th transform call of the pass if it calls
processLine(line, tr, n) ==
    LET trimmed == TrimSpace(line)
        eqIndex == IndexByte(line, 61)
        key == SubSeq(line, 1, eqIndex - 1)
        u == unquoteValue(SubSeq(line, eqIndex + 1, Len(line)))
        Transformed(r) ==
            LET out == r.res.out
                quoted == IF tr.encrypting
                          THEN quoteValue(out, u.wasQuoted, u.quoteChar)
                          ELSE quoteValue(out, needsQuoting(out), Ch.dq)
            IN  IF r.res.err # "nil" THEN Pass(Empty, <<Called(u.value, r)>>, r.res.err)
                ELSE Pass(key \o <<61>> \o quoted, <<Called(u.value, r)>>, "nil")
    IN  IF \/ trimmed = Empty
           \/ HasPrefix(trimmed, <<35>>)
           \/ HasPrefix(trimmed, ShhhEnvPrefix)
           \/ eqIndex = 0
        THEN Pass(line, << >>, "nil")
        ELSE IF \/ tr.encrypting /\ ~IsEncrypted(u.value) /\ u.value # Empty
                \/ ~tr.encrypting /\ IsEncrypted(u.value)
        THEN Transformed(Transform(tr, u.value, n))
        ELSE Pass(line, << >>, "nil")

RECURSIVE ENVProcessLines(_, _, _)
\* the scanner loop of ENVParser.EncryptValues and DecryptValues; acc is the
\* pass so far, with the lines written in out
ENVProcessLines(lines, tr, acc) ==
    IF lines = << >> \/ acc.err # "nil" THEN acc
    ELSE LET Written(r) ==
                 ENVProcessLines(Tail(lines), tr,
                     Pass(Append(acc.out, r.out), acc.calls \o r.calls, r.err))
         IN  Written(processLine(Head(lines), tr, Len(acc.calls)))

\* ENVParser.EncryptValues and ENVParser.DecryptValues: the same loop, the
\* transform says which
ENVTransformValues(content, tr) ==
    LET Flushed(r) == IF r.err # "nil" THEN Pass(Empty, r.calls, r.err)
                      ELSE Pass(WriteLines(r.out), r.calls, "nil")
    IN  Flushed(ENVProcessLines(ScanLines(content), tr, Pass(<< >>, << >>, "nil")))

\* the comment line that opens the metadata block of an ENV file
ShhhEnvComment == (T(<<"#">>) \o <<Ch.sp>> \o T(<<"s", "h", "h", "h">>) \o <<Ch.sp>> \o T(<<"m", "e", "t", "a", "d", "a", "t", "a">>))

\* AddENVMetadata; metadata is the map as the range loop happens to visit it
AddENVMetadata(content, metadata) ==
    content \o <<Ch.nl>> \o ShhhEnvComment \o <<Ch.nl>>
    \o Concat([i \in 1..Len(metadata) |->
                  ShhhEnvPrefix \o ToUpper(metadata[i].k) \o <<61>> \o metadata[i].v
                  \o <<Ch.nl>>])

RECURSIVE ENVKeptLines(_, _)
\* the scanner loop of RemoveENVMetadata
ENVKeptLines(lines, inMetadata) ==
    IF lines = << >> THEN << >>
    ELSE LET line == Head(lines)
         IN  IF TrimSpace(line) = ShhhEnvComment THEN ENVKeptLines(Tail(lines), TRUE)
             ELSE IF inMetadata /\ HasPrefix(TrimSpace(line), ShhhEnvPrefix)
                  THEN ENVKeptLines(Tail(lines), TRUE)
             ELSE IF inMetadata /\ TrimSpace(line) = Empty
                  THEN ENVKeptLines(Tail(lines), TRUE)
             ELSE <<line>> \o ENVKeptLines(Tail(lines), FALSE)

RECURSIVE TrimTrailingEmpty(_)
\* the loop of RemoveENVMetadata that drops the trailing empty lines
TrimTrailingEmpty(lines) ==
    IF lines # << >> /\ TrimSpace(lines[Len(lines)]) = Empty
    THEN TrimTrailingEmpty(SubSeq(lines, 1, Len(lines) - 1))
    ELSE lines

RemoveENVMetadata(content) ==
    WriteLines(TrimTrailingEmpty(ENVKeptLines(ScanLines(content), FALSE)))

---------------------------------------------------------------------------
(* The full-file envelope *)

FullFileHeader == (T(<<"-", "-", "-", "-", "-", "B", "E", "G", "I", "N">>) \o <<Ch.sp>> \o T(<<"S", "H", "H", "H">>) \o <<Ch.sp>> \o T(<<"E", "N", "C", "R", "Y", "P", "T", "E", "D">>) \o <<Ch.sp>> \o T(<<"F", "I", "L", "E", "-", "-", "-", "-", "-">>))
FullFileFooter == (T(<<"-", "-", "-", "-", "-", "E", "N", "D">>) \o <<Ch.sp>> \o T(<<"S", "H", "H", "H">>) \o <<Ch.sp>> \o T(<<"E", "N", "C", "R", "Y", "P", "T", "E", "D">>) \o <<Ch.sp>> \o T(<<"F", "I", "L", "E", "-", "-", "-", "-", "-">>))

\* the two values of EncryptOptions.Mode
ModeValues == T(<<"v", "a", "l", "u", "e", "s">>)
ModeFull == T(<<"f", "u", "l", "l">>)

RECURSIVE BodyLines(_)
\* the loop of encryptFullFile that writes the encoding 64 characters a line
BodyLines(encoded) ==
    IF encoded = Empty THEN Empty
    ELSE IF Len(encoded) <= 64 THEN encoded \o <<Ch.nl>>
    ELSE SubSeq(encoded, 1, 64) \o <<Ch.nl>> \o BodyLines(SubSeq(encoded, 65, Len(encoded)))

\* encryptFullFile; now is time.Now() in RFC 3339
encryptFullFile(p, ck, up, content, opts, nonce, now) ==
    LET head == <<FullFileHeader,
                  (T(<<"V", "e", "r", "s", "i", "o", "n", ":">>) \o <<Ch.sp>> \o T(<<"1">>)),
                  (T(<<"V", "a", "u", "l", "t", ":">>) \o <<Ch.sp>>) \o opts.Vault,
                  (T(<<"M", "o", "d", "e", ":">>) \o <<Ch.sp>> \o T(<<"f", "u", "l", "l">>)),
                  (T(<<"R", "e", "c", "i", "p", "i", "e", "n", "t", "s", ":">>) \o <<Ch.sp>>) \o Join(opts.Recipients, (T(<<",">>) \o <<Ch.sp>>)),
                  (T(<<"E", "n", "c", "r", "y", "p", "t", "e", "d", "-", "A", "t", ":">>) \o <<Ch.sp>>) \o now,
                  Empty>>
        Enveloped(e) ==
            IF e.res.err # "nil" THEN Pass(Empty, <<Called(content, e)>>, e.res.err)
            ELSE Pass(WriteLines(head) \o BodyLines(Base64Encode(e.res.out))
                      \o FullFileFooter \o <<Ch.nl>>,
                      <<Called(content, e)>>, "nil")
    IN  Enveloped(ProviderEncrypt(p, ck, up, content, opts.Recipients, nonce))

RECURSIVE EncodedData(_, _)
\* the loop of decryptFullFile over the lines: what it collects in encodedData
EncodedData(lines, inBody) ==
    IF lines = << >> THEN Empty
    ELSE LET line == TrimSpace(Head(lines))
         IN  IF line = Empty /\ ~inBody THEN EncodedData(Tail(lines), TRUE)
             ELSE IF line = FullFileFooter THEN Empty
             ELSE IF inBody /\ line # Empty THEN line \o EncodedData(Tail(lines), inBody)
             ELSE EncodedData(Tail(lines), inBody)

decryptFullFile(p, ck, up, content) ==
    LET Decrypted(encoded, d) == Pass(d.res.out, <<Called(encoded, d)>>, d.res.err)
        Decoded(encoded, decoded) ==
            IF ~decoded.ok THEN Pass(Empty, << >>, "Base64Error")
            ELSE Decrypted(encoded, ProviderDecrypt(p, ck, up, decoded.data))
        Collected(encoded) == Decoded(encoded, Base64Decode(encoded))
    IN  Collected(EncodedData(Split(content, Ch.nl), FALSE))

\* IsFullyEncrypted, and the test DecryptFileContent makes
IsFullyEncrypted(content) == HasPrefix(content, FullFileHeader)

---------------------------------------------------------------------------
(* The metadata encryptValuesFile attaches *)

\* the metadata map of encryptValuesFile, in the order of its literal
Metadata(opts, now) ==
    << [k |-> T(<<"v", "e", "r", "s", "i", "o", "n">>), v |-> T(<<"1">>)],
       [k |-> T(<<"v", "a", "u", "l", "t">>), v |-> opts.Vault],
       [k |-> T(<<"m", "o", "d", "e">>), v |-> opts.Mode],
       [k |-> T(<<"e", "n", "c", "r", "y", "p", "t", "e", "d", "_", "a", "t">>), v |-> now],
       [k |-> T(<<"r", "e", "c", "i", "p", "i", "e", "n", "t", "s">>), v |-> Join(opts.Recipients, (T(<<",">>) \o <<Ch.sp>>))] >>

\* a range loop over a map visits the entries in an order the runtime picks
RangeOver(map, order) == [i \in 1..Len(order) |-> map[order[i]]]

\* the reserved key, and section name, of the metadata
ShhhKey == T(<<"_", "s", "h", "h", "h">>)

---------------------------------------------------------------------------
(* YAML files: yaml.Node trees, as yaml.Unmarshal reads them and as the     *)
(* encoder writes them                                                     *)

\* yaml.Node: Kind ("doc", "map", "seq", "scalar"), Tag, Style ("plain", "dq",
\* "sq", "literal", "folded"), Value and Content; the Content of a mapping is
\* key, value, key, value, ...
Scalar(tag, style, value) ==
    [kind |-> "scalar", tag |-> tag, style |-> style, value |-> value, content |-> << >>]
Mapping(content) ==
    [kind |-> "map", tag |-> "!!map", style |-> "plain", value |-> Empty, content |-> content]
SequenceNode(content) ==
    [kind |-> "seq", tag |-> "!!seq", style |-> "plain", value |-> Empty, content |-> content]
DocumentNode(content) ==
    [kind |-> "doc", tag |-> "", style |-> "plain", value |-> Empty, content |-> content]

\* levels sequences of one item, each the item of the one around it and the
\* innermost holding the node inner, kept as their number
NestedSequences(levels, inner) ==
    [kind |-> "nest", tag |-> "!!seq", style |-> "plain", value |-> Empty,
     content |-> <<inner>>, levels |-> levels]

\* a node with an Anchor: the anchor name, and the node as its content
AnchoredNode(name, node) ==
    [kind |-> "anchor", tag |-> node.tag, style |-> "plain", value |-> name,
     content |-> <<node>>]

\* an alias node: the anchor name, and as its content the node its Alias
\* field points to, which is the anchored node itself. The documents of the
\* model anchor nodes under the reserved key only, which the walk reaches
\* through the alias and in no other way
AliasNode(name, target) ==
    [kind |-> "alias", tag |-> "", style |-> "plain", value |-> name, content |-> <<target>>]

IsDigit(c) == c >= 48 /\ c <= 57

\* an RFC 3339 time in UTC, the form time.Now().Format(time.RFC3339) has there
IsTimestamp(v) ==
    /\ Len(v) = 20
    /\ \A i \in {1, 2, 3, 4, 6, 7, 9, 10, 12, 13, 15, 16, 18, 19} : IsDigit(v[i])
    /\ v[5] = 45 /\ v[8] = 45 /\ v[11] = 84 /\ v[14] = 58 /\ v[17] = 58 /\ v[20] = 90

\* the tag yaml.v3 resolves an untagged plain scalar to
Resolve(value) ==
    IF value \in {Empty, T(<<"~">>), T(<<"n", "u", "l", "l">>), T(<<"N", "u", "l", "l">>), T(<<"N", "U", "L", "L">>)} THEN "!!null"
    ELSE IF value \in {T(<<"t", "r", "u", "e">>), T(<<"T", "r", "u", "e">>), T(<<"T", "R", "U", "E">>), T(<<"f", "a", "l", "s", "e">>), T(<<"F", "a", "l", "s", "e">>), T(<<"F", "A", "L", "S", "E">>)}
         THEN "!!bool"
    ELSE IF \A i \in 1..Len(value) : IsDigit(value[i]) THEN "!!int"
    ELSE IF /\ Len(value) >= 2 /\ value[1] \in {43, 45}
            /\ \A i \in 2..Len(value) : IsDigit(value[i]) THEN "!!int"
    ELSE IF /\ \E i \in 2..(Len(value) - 1) :
                   /\ value[i] = 46
                   /\ \A j \in 1..Len(value) : j # i => IsDigit(value[j])
         THEN "!!float"
    ELSE IF IsTimestamp(value) THEN "!!timestamp"
    ELSE "!!str"

\* the emitter can write the value as a plain scalar of a block mapping
PlainAllowed(value) ==
    /\ value # Empty
    /\ value[1] \notin {Ch.sp, Ch.tab, Ch.dq, Ch.sq, Ch.star, 33, 35, 37, 38, 44, 45, 58, 62,
                        63, 64, 91, 93, 96, 123, 124, 125}
    /\ value[Len(value)] \notin {Ch.sp, Ch.tab, 58}
    /\ ~Contains(value, (T(<<":">>) \o <<Ch.sp>>))
    /\ ~Contains(value, (<<Ch.sp>> \o T(<<"#">>)))

\* the style the encoder writes a scalar node in: the node's own style if it
\* has one; a block literal for a value with a line break; double quotes for a
\* !!str node whose value would resolve to another tag; single quotes when the
\* value cannot be written plain
EmitStyle(node) ==
    IF node.style # "plain" THEN node.style
    ELSE IF Contains(node.value, <<Ch.nl>>) THEN "literal"
    ELSE IF node.tag = "!!str" /\ Resolve(node.value) # "!!str" THEN "dq"
    ELSE IF ~PlainAllowed(node.value) THEN "sq"
    ELSE "plain"

\* the scalar node yaml.Unmarshal reads back from what the encoder wrote
Reread(node) ==
    LET s == EmitStyle(node)
    IN  Scalar(IF s = "plain" THEN Resolve(node.value) ELSE "!!str", s, node.value)

RECURSIVE YAMLEncode(_)
\* yaml.Encoder.Encode followed by yaml.Unmarshal: the tree of the text written
YAMLEncode(node) ==
    IF node.kind = "scalar" THEN Reread(node)
    ELSE IF node.kind = "nest"
    THEN NestedSequences(node.levels, YAMLEncode(node.content[1]))
    ELSE IF node.kind \in {"anchor", "alias"}
    THEN [node EXCEPT !.content = <<YAMLEncode(node.content[1])>>]
    ELSE [kind |-> node.kind,
          tag |-> IF node.kind = "map" THEN "!!map"
                  ELSE IF node.kind = "seq" THEN "!!seq" ELSE "",
          style |-> "plain", value |-> Empty,
          content |-> [i \in 1..Len(node.content) |-> YAMLEncode(node.content[i])]]

\* the nesting ceiling of the structured parsers
MaxNestingDepth == 100

\* inferStyle: the style processNode gives a decrypted scalar
inferStyle(value) == IF Contains(value, <<Ch.nl>>) THEN "literal" ELSE "plain"

Spaces(n) == [i \in 1..n |-> Ch.sp]

\* a scalar as the emitter writes it plain, single quoted or double quoted
ScalarText(node) ==
    LET v == node.value
        s == EmitStyle(node)
    IN  IF s = "dq"
        THEN <<Ch.dq>>
             \o Concat([i \in 1..Len(v) |->
                           IF v[i] \in {Ch.dq, Ch.bs} THEN <<Ch.bs, v[i]>>
                           ELSE IF v[i] = Ch.nl THEN <<Ch.bs, 110>>
                           ELSE <<v[i]>>])
             \o <<Ch.dq>>
        ELSE IF s = "sq"
        THEN <<Ch.sq>>
             \o Concat([i \in 1..Len(v) |-> IF v[i] = Ch.sq THEN <<Ch.sq, Ch.sq>> ELSE <<v[i]>>])
             \o <<Ch.sq>>
        ELSE v

\* a block literal: the indicator line, then the lines of the value indented
LiteralLines(value, indent) ==
    LET clip == value # Empty /\ value[Len(value)] = Ch.nl
        body == Split(IF clip THEN SubSeq(value, 1, Len(value) - 1) ELSE value, Ch.nl)
    IN  <<IF clip THEN (<<Ch.sp>> \o T(<<"|">>)) ELSE (<<Ch.sp>> \o T(<<"|", "-">>))>>
        \o [i \in 1..Len(body) |->
               IF body[i] = Empty THEN Empty ELSE Spaces(indent) \o body[i]]

RECURSIVE ValueLines(_, _)
RECURSIVE MappingLines(_, _)
RECURSIVE SequenceLines(_, _)
RECURSIVE ItemLines(_, _)

\* what the emitter writes for a node after "key:" or "-": the rest of that
\* line first, then the lines below it (block style, SetIndent(2))
ValueLines(node, indent) ==
    IF node.kind = "scalar"
    THEN IF EmitStyle(node) \in {"literal", "folded"}
         THEN LiteralLines(node.value, indent + 2)
         ELSE <<<<Ch.sp>> \o ScalarText(node)>>
    ELSE IF node.kind = "alias" THEN <<<<Ch.sp, Ch.star>> \o node.value>>
    ELSE IF node.kind = "anchor"
    THEN LET Anchor(vl) == <<<<Ch.sp, 38>> \o node.value \o vl[1]>> \o Tail(vl)
         IN  Anchor(ValueLines(node.content[1], indent))
    ELSE IF node.content = << >>
    THEN <<IF node.kind = "map" THEN (<<Ch.sp>> \o T(<<"{", "}">>)) ELSE (<<Ch.sp>> \o T(<<"[", "]">>))>>
    ELSE IF node.kind = "map" THEN <<Empty>> \o MappingLines(node.content, indent + 2)
    ELSE <<Empty>> \o ItemLines(node, indent + 2)

\* the lines of a block mapping at an indentation
MappingLines(content, indent) ==
    IF content = << >> THEN << >>
    ELSE LET Entry(vl) ==
                 <<Spaces(indent) \o ScalarText(content[1]) \o <<58>> \o vl[1]>>
                 \o Tail(vl) \o MappingLines(SubSeq(content, 3, Len(content)), indent)
         IN  Entry(ValueLines(content[2], indent))

\* the lines of a block sequence at an indentation
SequenceLines(content, indent) ==
    IF content = << >> THEN << >>
    ELSE LET item == content[1]
             Inline(below) ==
                 <<<<Ch.sp>> \o SubSeq(below[1], indent + 3, Len(below[1]))>> \o Tail(below)
             Item(vl) ==
                 <<Spaces(indent) \o <<45>> \o vl[1]>>
                 \o Tail(vl) \o SequenceLines(Tail(content), indent)
         IN  Item(IF item.kind = "scalar" \/ item.content = << >>
                  THEN ValueLines(item, indent)
                  ELSE Inline(IF item.kind = "map"
                              THEN MappingLines(item.content, indent + 2)
                              ELSE ItemLines(item, indent + 2)))

\* the lines of a block sequence node at an indentation; of nested sequences
\* of one item the dashes share the first line
ItemLines(node, indent) ==
    IF node.kind # "nest" THEN SequenceLines(node.content, indent)
    ELSE LET inner == indent + 2 * (node.levels - 1)
             Lead(below) ==
                 <<Spaces(indent)
                   \o Concat([i \in 1..(node.levels - 1) |-> <<45, Ch.sp>>])
                   \o SubSeq(below[1], inner + 1, Len(below[1]))>>
                 \o Tail(below)
         IN  Lead(SequenceLines(node.content, inner))

\* the bytes yaml.Encoder writes for a document node
YAMLText(root) ==
    IF root.content = << >> THEN Empty
    ELSE LET top == root.content[1]
             Document(vl) ==
                 IF top.kind = "scalar" \/ top.content = << >>
                 THEN WriteLines(<<Tail(vl[1])>> \o Tail(vl))
                 ELSE WriteLines(Tail(vl))
         IN  Document(ValueLines(top, 0 - 2))

RECURSIVE processNode(_, _, _, _)
RECURSIVE YAMLProcessContent(_, _, _, _, _, _)

\* the loops of processNode over node.Content from position i: every child of
\* a document or sequence, and of a mapping the values whose key is not "_shhh"
YAMLProcessContent(content, i, isMap, tr, depth, acc) ==
    IF i > Len(content) \/ acc.err # "nil" THEN acc
    ELSE LET skip == isMap /\ (i % 2 = 1 \/ content[i - 1].value = ShhhKey)
             Visited(r) ==
                 YAMLProcessContent(content, i + 1, isMap, tr, depth,
                                    Pass(Append(acc.out, r.out), r.calls, r.err))
         IN  Visited(IF skip THEN Pass(content[i], acc.calls, "nil")
                     ELSE processNode(content[i], tr, depth + 1, acc.calls))

\* YAMLParser.processNode; calls are the transform calls made before. The
\* node an alias points to is processed as the one child of the alias node
processNode(node, tr, depth, calls) ==
    LET Transformed(r) ==
            LET called == Append(calls, Called(node.value, r))
                out == r.res.out
            IN  IF r.res.err # "nil" THEN Pass(node, called, r.res.err)
                ELSE IF tr.encrypting THEN Pass(Scalar("!!str", "literal", out), called, "nil")
                ELSE Pass(Scalar(node.tag, inferStyle(out), out), called, "nil")
        Walked(r) == Pass([node EXCEPT !.content = r.out], r.calls, r.err)
        Anchored(r) == Pass([node EXCEPT !.content = <<r.out>>], r.calls, r.err)
    IN  IF depth > MaxNestingDepth THEN Pass(node, calls, "DepthExceeded")
        ELSE IF node.kind = "anchor" THEN Anchored(processNode(node.content[1], tr, depth, calls))
        ELSE IF node.kind = "scalar"
        THEN IF \/ tr.encrypting /\ ~IsEncrypted(node.value) /\ node.value # Empty
                \/ ~tr.encrypting /\ IsEncrypted(node.value)
             THEN Transformed(Transform(tr, node.value, Len(calls)))
             ELSE Pass(node, calls, "nil")
        ELSE IF node.kind = "nest"
        THEN IF depth + node.levels - 1 > MaxNestingDepth
             THEN Pass(node, calls, "DepthExceeded")
             ELSE Walked(YAMLProcessContent(node.content, 1, FALSE, tr,
                                            depth + node.levels - 1,
                                            Pass(<< >>, calls, "nil")))
        ELSE Walked(YAMLProcessContent(node.content, 1, node.kind = "map", tr, depth,
                                       Pass(<< >>, calls, "nil")))

RECURSIVE AliasNodes(_)
\* the alias nodes of a tree
AliasNodes(node) ==
    IF node.kind = "alias" THEN <<node>>
    ELSE Concat([i \in 1..Len(node.content) |-> AliasNodes(node.content[i])])

RECURSIVE Rebind(_, _)
\* the tree after the walk: an anchored node is the node the aliases of its
\* name point to, which the walk has changed in place
Rebind(node, aliases) ==
    IF node.kind = "alias" THEN node
    ELSE IF node.kind = "anchor" /\ \E i \in DOMAIN aliases : aliases[i].value = node.value
    THEN [node EXCEPT !.content =
              aliases[CHOOSE i \in DOMAIN aliases : aliases[i].value = node.value].content]
    ELSE [node EXCEPT !.content = [i \in 1..Len(node.content) |-> Rebind(node.content[i], aliases)]]

Shared(root) ==
    LET Bound(aliases) == IF aliases = << >> THEN root ELSE Rebind(root, aliases)
    IN  Bound(AliasNodes(root))

\* YAMLTransformValues without the walk: the document is written back as read
YAMLTransformValues_Unprocessed(root, tr) == Pass(YAMLEncode(root), << >>, "nil")

\* YAMLParser.EncryptValues and YAMLParser.DecryptValues: the same steps, the
\* transform says which
YAMLTransformValues(root, tr) ==
    LET Encoded(r) == IF r.err # "nil" THEN Pass(Empty, r.calls, r.err)
                      ELSE Pass(YAMLEncode(Shared(r.out)), r.calls, "nil")
    IN  Encoded(processNode(root, tr, 0, << >>))

\* AddShhhMetadata; metadata is the map as the range loop happens to visit it
AddShhhMetadata(root, metadata) ==
    IF root.kind # "doc" \/ root.content = << >> THEN root
    ELSE IF root.content[1].kind # "map" THEN root
    ELSE LET metaNode ==
                 Mapping(Concat([i \in 1..Len(metadata) |->
                                    <<Scalar("", "plain", metadata[i].k),
                                      Scalar("", "plain", metadata[i].v)>>]))
             docNode == root.content[1]
         IN  YAMLEncode(DocumentNode(
                 <<[docNode EXCEPT !.content =
                        docNode.content \o <<Scalar("", "plain", ShhhKey), metaNode>>]>>))

\* RemoveShhhMetadata
RemoveShhhMetadata(root) ==
    IF root.kind # "doc" \/ root.content = << >> THEN root
    ELSE IF root.content[1].kind # "map" THEN root
    ELSE LET docNode == root.content[1]
             keep == {i \in 1..Len(docNode.content) :
                         docNode.content[IF i % 2 = 1 THEN i ELSE i - 1].value # ShhhKey}
             newContent == SelectSeq([i \in 1..Len(docNode.content) |-> <<i, docNode.content[i]>>],
                                     LAMBDA e : e[1] \in keep)
         IN  YAMLEncode(DocumentNode(
                 <<[docNode EXCEPT !.content =
                        [i \in 1..Len(newContent) |-> newContent[i][2]]]>>))

---------------------------------------------------------------------------
(* JSON files: the document as written, the Go value json.Unmarshal makes  *)
(* of it, and the text the encoder writes                                  *)

\* a JSON value: t is "obj", "arr", "str", "num", "bool" or "null"; v is the
\* string, the number literal or the boolean literal; kids are the members of
\* an object (k the key) or the elements of an array (k empty), in order
JStr(s) == [t |-> "str", v |-> s, kids |-> << >>]
JNum(literal) == [t |-> "num", v |-> literal, kids |-> << >>]
JObj(members) == [t |-> "obj", v |-> Empty, kids |-> members]
JArr(items) ==
    [t |-> "arr", v |-> Empty, kids |-> [i \in 1..Len(items) |-> [k |-> Empty, v |-> items[i]]]]

\* levels arrays of one element, each the element of the one around it and
\* the innermost holding the value inner, kept as their number
NestedArrays(levels, inner) ==
    [t |-> "nest", v |-> Empty, kids |-> <<[k |-> Empty, v |-> inner]>>, levels |-> levels]

\* a < b for Go strings
LessText(a, b) ==
    \E i \in 1..Len(b) :
        /\ i - 1 <= Len(a)
        /\ \A j \in 1..(i - 1) : a[j] = b[j]
        /\ (i > Len(a) \/ a[i] < b[i])

RECURSIVE SortTexts(_)
\* the strings of a set in increasing order, as the encoder sorts map keys
SortTexts(S) ==
    IF S = {} THEN << >>
    ELSE LET m == CHOOSE x \in S : \A y \in S \ {x} : LessText(x, y)
         IN  <<m>> \o SortTexts(S \ {m})

\* a map[string]interface{} built from members in order: one entry a key, the
\* last value given wins; the entries are kept in the order the encoder
\* writes them
GoMap(members) ==
    LET keys == SortTexts({members[i].k : i \in 1..Len(members)})
        last(key) == CHOOSE i \in 1..Len(members) :
                         /\ members[i].k = key
                         /\ \A j \in (i + 1)..Len(members) : members[j].k # key
    IN  [i \in 1..Len(keys) |-> [k |-> keys[i], v |-> members[last(keys[i])].v]]

RECURSIVE StripZeros(_)
StripZeros(s) ==
    IF s # Empty /\ s[Len(s)] = 48 THEN StripZeros(SubSeq(s, 1, Len(s) - 1)) ELSE s

\* a number literal read into a float64 and written again: a fraction loses
\* its trailing zeros, and the point with them (plain decimal literals only)
Float64Text(literal) ==
    IF IndexByte(literal, 46) = 0 THEN literal
    ELSE LET s == StripZeros(literal)
         IN  IF s[Len(s)] = 46 THEN SubSeq(s, 1, Len(s) - 1) ELSE s

RECURSIVE JSONUnmarshal(_)
\* json.Unmarshal into an interface{}
JSONUnmarshal(node) ==
    IF node.t = "obj"
    THEN JObj(GoMap([i \in 1..Len(node.kids) |->
                        [k |-> node.kids[i].k, v |-> JSONUnmarshal(node.kids[i].v)]]))
    ELSE IF node.t = "arr"
    THEN JArr([i \in 1..Len(node.kids) |-> JSONUnmarshal(node.kids[i].v)])
    ELSE IF node.t = "nest"
    THEN NestedArrays(node.levels, JSONUnmarshal(node.kids[1].v))
    ELSE IF node.t = "num" THEN JNum(Float64Text(node.v))
    ELSE node

Reverse(s) == [i \in 1..Len(s) |-> s[Len(s) + 1 - i]]

RECURSIVE processValue(_, _, _, _, _)
RECURSIVE JSONProcessKids(_, _, _, _, _, _)

\* the loops of processValue over the entries of a map or slice, in the order
\* visited; the entry of key "_shhh" of a map is copied
JSONProcessKids(kids, isMap, tr, depth, desc, acc) ==
    IF kids = << >> \/ acc.err # "nil" THEN acc
    ELSE LET kid == Head(kids)
             Visited(r) ==
                 JSONProcessKids(Tail(kids), isMap, tr, depth, desc,
                     Pass(Append(acc.out, [k |-> kid.k, v |-> r.out]), r.calls, r.err))
         IN  Visited(IF isMap /\ kid.k = ShhhKey THEN Pass(kid.v, acc.calls, "nil")
                     ELSE processValue(kid.v, tr, depth + 1, acc.calls, desc))

\* JSONParser.processValue; calls are the transform calls made before, and
\* desc says in which of two orders a range loop visits the keys of a map
processValue(value, tr, depth, calls, desc) ==
    LET back == value.t = "obj" /\ desc
        Walked(r) ==
            Pass([value EXCEPT !.kids = IF back THEN Reverse(r.out) ELSE r.out],
                 r.calls, r.err)
        Transformed(r) ==
            LET called == Append(calls, Called(value.v, r))
            IN  IF r.res.err # "nil" THEN Pass(value, called, r.res.err)
                ELSE Pass(JStr(r.res.out), called, "nil")
    IN  IF depth > MaxNestingDepth THEN Pass(value, calls, "DepthExceeded")
        ELSE IF value.t = "nest"
        THEN IF depth + value.levels - 1 > MaxNestingDepth
             THEN Pass(value, calls, "DepthExceeded")
             ELSE Walked(JSONProcessKids(value.kids, FALSE, tr, depth + value.levels - 1,
                                         desc, Pass(<< >>, calls, "nil")))
        ELSE IF value.t \in {"obj", "arr"}
        THEN Walked(JSONProcessKids(IF back THEN Reverse(value.kids) ELSE value.kids,
                                    value.t = "obj", tr, depth, desc,
                                    Pass(<< >>, calls, "nil")))
        ELSE IF value.t = "str"
        THEN IF \/ tr.encrypting /\ ~IsEncrypted(value.v) /\ value.v # Empty
                \/ ~tr.encrypting /\ IsEncrypted(value.v)
             THEN Transformed(Transform(tr, value.v, Len(calls)))
             ELSE Pass(value, calls, "nil")
        ELSE Pass(value, calls, "nil")

\* JSONParser.EncryptValues and JSONParser.DecryptValues: the same steps, the
\* transform says which
JSONTransformValues(content, tr, desc) ==
    LET Marshalled(r) == IF r.err # "nil" THEN Pass(Empty, r.calls, r.err) ELSE r
    IN  Marshalled(processValue(JSONUnmarshal(content), tr, 0, << >>, desc))

\* AddJSONMetadata: the document is read into a map[string]interface{}, which
\* an array, string, number or boolean is no value of and which null leaves nil
AddJSONMetadata(content, metadata) ==
    LET data == JSONUnmarshal(content)
        meta == JObj(GoMap([i \in 1..Len(metadata) |->
                               [k |-> metadata[i].k, v |-> JStr(metadata[i].v)]]))
    IN  IF data.t = "null" THEN Pass(Empty, << >>, "PanicNilMap")
        ELSE IF data.t # "obj" THEN Pass(Empty, << >>, "UnmarshalTypeError")
        ELSE Pass(JObj(GoMap(data.kids \o <<[k |-> ShhhKey, v |-> meta]>>)), << >>, "nil")

\* RemoveJSONMetadata
RemoveJSONMetadata(content) ==
    LET data == JSONUnmarshal(content)
    IN  IF data.t \notin {"obj", "null"} THEN Pass(Empty, << >>, "UnmarshalTypeError")
        ELSE Pass([data EXCEPT !.kids = SelectSeq(data.kids, LAMBDA m : m.k # ShhhKey)],
                  << >>, "nil")

\* a string as the encoder writes it (SetEscapeHTML(false))
JSONString(s) ==
    <<Ch.dq>>
    \o Concat([i \in 1..Len(s) |->
                  IF s[i] \in {Ch.dq, Ch.bs} THEN <<Ch.bs, s[i]>>
                  ELSE IF s[i] = Ch.nl THEN <<Ch.bs, 110>>
                  ELSE IF s[i] = Ch.cr THEN <<Ch.bs, 114>>
                  ELSE IF s[i] = Ch.tab THEN <<Ch.bs, 116>>
                  ELSE <<s[i]>>])
    \o <<Ch.dq>>

RECURSIVE JSONLines(_, _)
RECURSIVE JSONKidLines(_, _, _)

\* the lines the encoder writes for a value (SetIndent("", "  ")): the first
\* without its indentation, the others with it
JSONLines(node, indent) ==
    IF node.t = "str" THEN <<JSONString(node.v)>>
    ELSE IF node.t = "null" THEN <<T(<<"n", "u", "l", "l">>)>>
    ELSE IF node.t \in {"num", "bool"} THEN <<node.v>>
    ELSE IF node.t = "nest"
    THEN LET Around(vl) ==
                 [i \in 1..node.levels |->
                     (IF i = 1 THEN Empty ELSE Spaces(indent + 2 * (i - 1))) \o T(<<"[">>)]
                 \o <<Spaces(indent + 2 * node.levels) \o vl[1]>> \o Tail(vl)
                 \o [i \in 1..node.levels |->
                        Spaces(indent + 2 * (node.levels - i)) \o T(<<"]">>)]
         IN  Around(JSONLines(node.kids[1].v, indent + 2 * node.levels))
    ELSE IF node.kids = << >> THEN <<IF node.t = "obj" THEN T(<<"{", "}">>) ELSE T(<<"[", "]">>)>>
    ELSE <<IF node.t = "obj" THEN T(<<"{">>) ELSE T(<<"[">>)>>
         \o JSONKidLines(node.kids, node.t = "obj", indent + 2)
         \o <<Spaces(indent) \o (IF node.t = "obj" THEN T(<<"}">>) ELSE T(<<"]">>))>>

\* the lines of the members of an object or the elements of an array
JSONKidLines(kids, isObj, indent) ==
    IF kids = << >> THEN << >>
    ELSE LET comma == IF Len(kids) > 1 THEN <<44>> ELSE Empty
             Kid(vl) ==
                 LET first == Spaces(indent)
                              \o (IF isObj THEN JSONString(kids[1].k) \o (T(<<":">>) \o <<Ch.sp>>) ELSE Empty)
                              \o vl[1]
                     ls == <<first>> \o Tail(vl)
                 IN  [i \in 1..Len(ls) |-> IF i = Len(ls) THEN ls[i] \o comma ELSE ls[i]]
                     \o JSONKidLines(Tail(kids), isObj, indent)
         IN  Kid(JSONLines(kids[1].v, indent))

\* the bytes json.Encoder.Encode writes for a value
JSONText(node) == WriteLines(JSONLines(node, 0))

---------------------------------------------------------------------------
(* INI files: the sections and keys ini.Load reads, and what WriteTo writes *)

\* a section: its name and its keys (k the key name, v the value), in order
INISection(name, keys) == [name |-> name, keys |-> keys]

\* the name of the section of the keys that stand before any section header
DefaultSection == T(<<"D", "E", "F", "A", "U", "L", "T">>)

\* Section.Key(k).SetValue(v): an existing key keeps its place
SetKey(keys, k, v) ==
    IF \E i \in 1..Len(keys) : keys[i].k = k
    THEN [i \in 1..Len(keys) |-> IF keys[i].k = k THEN [k |-> k, v |-> v] ELSE keys[i]]
    ELSE Append(keys, [k |-> k, v |-> v])

RECURSIVE SetKeys(_, _)
SetKeys(keys, more) ==
    IF more = << >> THEN keys
    ELSE SetKeys(SetKey(keys, more[1].k, more[1].v), Tail(more))

RECURSIVE INILoadSections(_, _)
\* the sections read so far and the next ones: a name met again names the
\* section already there
INILoadSections(file, sections) ==
    IF sections = << >> THEN file
    ELSE LET s == Head(sections)
         IN  INILoadSections(
                 IF \E i \in 1..Len(file) : file[i].name = s.name
                 THEN [i \in 1..Len(file) |->
                          IF file[i].name = s.name
                          THEN INISection(s.name, SetKeys(file[i].keys, s.keys))
                          ELSE file[i]]
                 ELSE Append(file, INISection(s.name, SetKeys(<< >>, s.keys))),
                 Tail(sections))

\* ini.Load: a File always has the default section, first
INILoad(content) == INILoadSections(<<INISection(DefaultSection, << >>)>>, content)

\* File.WriteTo, as sections: an empty default section is not written
INIWritten(file) == IF file[1].keys = << >> THEN Tail(file) ELSE file

RECURSIVE INIProcessKeys(_, _, _)
\* the loop over section.Keys() of INIParser.EncryptValues and DecryptValues
INIProcessKeys(keys, tr, acc) ==
    IF keys = << >> \/ acc.err # "nil" THEN acc
    ELSE LET value == Head(keys).v
             Transformed(r) ==
                 Pass(Append(acc.out, [k |-> Head(keys).k, v |-> r.res.out]),
                      Append(acc.calls, Called(value, r)), r.res.err)
         IN  INIProcessKeys(Tail(keys), tr,
                 IF \/ tr.encrypting /\ ~IsEncrypted(value) /\ value # Empty
                    \/ ~tr.encrypting /\ IsEncrypted(value)
                 THEN Transformed(Transform(tr, value, Len(acc.calls)))
                 ELSE Pass(Append(acc.out, Head(keys)), acc.calls, "nil"))

RECURSIVE INIProcessSections(_, _, _)
\* the loop over cfg.Sections(): the section "_shhh" is passed over
INIProcessSections(sections, tr, acc) ==
    IF sections = << >> \/ acc.err # "nil" THEN acc
    ELSE LET s == Head(sections)
             Visited(r) ==
                 INIProcessSections(Tail(sections), tr,
                     Pass(Append(acc.out, INISection(s.name, r.out)), r.calls, r.err))
         IN  Visited(IF s.name = ShhhKey THEN Pass(s.keys, acc.calls, "nil")
                     ELSE INIProcessKeys(s.keys, tr, Pass(<< >>, acc.calls, "nil")))

\* INIParser.EncryptValues and INIParser.DecryptValues: the same steps, the
\* transform says which
INITransformValues(content, tr) ==
    LET Written(r) == IF r.err # "nil" THEN Pass(Empty, r.calls, r.err)
                      ELSE Pass(INIWritten(r.out), r.calls, "nil")
    IN  Written(INIProcessSections(INILoad(content), tr, Pass(<< >>, << >>, "nil")))

\* AddINIMetadata: NewSection returns the section "_shhh" if there is one
AddINIMetadata(content, metadata) ==
    INIWritten(INILoadSections(INILoad(content), <<INISection(ShhhKey, metadata)>>))

\* RemoveINIMetadata
RemoveINIMetadata(content) ==
    INIWritten(SelectSeq(INILoad(content), LAMBDA s : s.name # ShhhKey))

\* a value as WriteTo writes it: in triple quotes with a line break or a
\* backquote in it, in backquotes with "#" or ";", in quotes with a space around
INIValueText(v) ==
    IF \E i \in 1..Len(v) : v[i] \in {Ch.nl, 96} THEN (<<Ch.dq>> \o <<Ch.dq>> \o <<Ch.dq>>) \o v \o (<<Ch.dq>> \o <<Ch.dq>> \o <<Ch.dq>>)
    ELSE IF \E i \in 1..Len(v) : v[i] \in {35, 59} THEN <<96>> \o v \o <<96>>
    ELSE IF TrimSpace(v) # v THEN <<Ch.dq>> \o v \o <<Ch.dq>>
    ELSE v

\* the length of the longest key name of a section, to which WriteTo pads
AlignLength(keys) ==
    IF keys = << >> THEN 0
    ELSE CHOOSE n \in {Len(keys[i].k) : i \in 1..Len(keys)} :
             \A i \in 1..Len(keys) : Len(keys[i].k) <= n

\* the lines WriteTo writes for a section: the header (not for the default
\* section), the aligned keys, an empty line
INISectionLines(s) ==
    (IF s.name = DefaultSection THEN << >> ELSE <<T(<<"[">>) \o s.name \o T(<<"]">>)>>)
    \o [i \in 1..Len(s.keys) |->
           s.keys[i].k \o Spaces(AlignLength(s.keys) - Len(s.keys[i].k))
           \o (<<Ch.sp>> \o T(<<"=">>) \o <<Ch.sp>>) \o INIValueText(s.keys[i].v)]
    \o <<Empty>>

\* the bytes File.WriteTo writes
INIText(content) ==
    WriteLines(Concat([i \in 1..Len(content) |-> INISectionLines(content[i])]))

---------------------------------------------------------------------------
(* The engine: format detection, EncryptFileContent and DecryptFileContent *)

\* filepath.Ext: from the last "." of the last path element; "" without one
Ext(filename) ==
    LET base == SubSeq(filename, LastIndexByte(filename, 47) + 1, Len(filename))
        dot == LastIndexByte(base, 46)
    IN  IF dot = 0 THEN Empty ELSE SubSeq(base, dot, Len(base))

\* DetectFormat comparing the extension as it is written
DetectFormat_AsWritten(filename) ==
    LET ext == Ext(filename)
    IN  IF ext \in {T(<<".", "y", "a", "m", "l">>), T(<<".", "y", "m", "l">>)} THEN "yaml"
        ELSE IF ext = T(<<".", "j", "s", "o", "n">>) THEN "json"
        ELSE IF ext \in {T(<<".", "i", "n", "i">>), T(<<".", "c", "f", "g">>), T(<<".", "c", "o", "n", "f">>)} THEN "ini"
        ELSE IF ext = T(<<".", "e", "n", "v">>) THEN "env"
        ELSE "unknown"

\* parser.DetectFormat
DetectFormat(filename) ==
    LET ext == ToLower(Ext(filename))
    IN  IF ext \in {T(<<".", "y", "a", "m", "l">>), T(<<".", "y", "m", "l">>)} THEN "yaml"
        ELSE IF ext = T(<<".", "j", "s", "o", "n">>) THEN "json"
        ELSE IF ext \in {T(<<".", "i", "n", "i">>), T(<<".", "c", "f", "g">>), T(<<".", "c", "o", "n", "f">>)} THEN "ini"
        ELSE IF ext = T(<<".", "e", "n", "v">>) THEN "env"
        ELSE "unknown"

\* the content of a file: bytes, or for a YAML, JSON or INI document what its
\* parser reads from the bytes (rep says which); v is what is read
Doc(rep, v) == [rep |-> rep, v |-> v]
NoContent == Doc("none", Empty)

\* a content of n bytes "a", as TestFileSizeLimits makes it, kept as its length
Fill(n) == Doc("fill", [n |-> n])

\* the full-file envelope of a Fill(n): the envelope of the empty content, whose
\* header, recipients and session key are those of the real one, and n
Sealed(n, envelope) == Doc("sealed", [n |-> n, envelope |-> envelope])

\* the bytes of a content
Bytes(content) ==
    IF content.rep = "yaml" THEN YAMLText(content.v)
    ELSE IF content.rep = "json" THEN JSONText(content.v)
    ELSE IF content.rep = "ini" THEN INIText(content.v)
    ELSE content.v

\* parser.MaxFileSize
MaxFileSize == 52428800

\* len(content); the envelope of n bytes holds their base64 encoding
Size(content) ==
    IF content.rep = "fill" THEN content.v.n
    ELSE IF content.rep = "sealed" THEN Len(content.v.envelope) + 4 * ((content.v.n + 2) \div 3)
    ELSE Len(Bytes(content))

\* parser.ValidateContentSize: TRUE when it returns no error. A content that is
\* written out byte by byte in the model is far below the ceiling, so its
\* length is not computed
ValidateContentSize(content) ==
    content.rep \in {"fill", "sealed"} => ~(Size(content) > MaxFileSize)

\* the parser of a format can read the content: a document of the format, or
\* for the line-based ENV parser any content, and any content where there is
\* no parser; a content kept as its length only where no parser comes to read
\* it
Readable(content, format) ==
    IF content.rep \in {"fill", "sealed"}
    THEN format = "unknown" \/ ~ValidateContentSize(content)
    ELSE format \in {"env", "unknown"} \/ content.rep = format

\* what runs an engine call: the provider GetProvider returns, gpg's key store
\* and whether gpg can run, the randomness, the clock, and the orders in which
\* range loops visit the metadata map and the maps of a JSON document
Runtime(p, ck, up, nonce, now, order, desc) ==
    [p |-> p, ck |-> ck, up |-> up, nonce |-> nonce, now |-> now, order |-> order,
     desc |-> desc]

\* TransformValues returning the document it was given along with the error
TransformValues_Partial(rt, format, content, tr) ==
    LET Returned(r) ==
            IF r.err # "nil" THEN Pass(content, r.calls, r.err)
            ELSE Pass(Doc(IF format = "env" THEN "bytes" ELSE format, r.out), r.calls, "nil")
    IN  Returned(IF ~ValidateContentSize(content) THEN Pass(Empty, << >>, "FileTooLarge")
                 ELSE IF format = "yaml" THEN YAMLTransformValues(content.v, tr)
                 ELSE IF format = "json" THEN JSONTransformValues(content.v, tr, rt.desc)
                 ELSE IF format = "ini" THEN INITransformValues(content.v, tr)
                 ELSE ENVTransformValues(Bytes(content), tr))

\* Parser.EncryptValues or Parser.DecryptValues of the parser GetParser returns
\* for the format, on a content that parser can read
TransformValues(rt, format, content, tr) ==
    LET Returned(r) ==
            IF r.err # "nil" THEN Pass(NoContent, r.calls, r.err)
            ELSE Pass(Doc(IF format = "env" THEN "bytes" ELSE format, r.out), r.calls, "nil")
    IN  Returned(IF ~ValidateContentSize(content) THEN Pass(Empty, << >>, "FileTooLarge")
                 ELSE IF format = "yaml" THEN YAMLTransformValues(content.v, tr)
                 ELSE IF format = "json" THEN JSONTransformValues(content.v, tr, rt.desc)
                 ELSE IF format = "ini" THEN INITransformValues(content.v, tr)
                 ELSE ENVTransformValues(Bytes(content), tr))

\* encryptFullFile on a content
EncryptFull(rt, content, opts) ==
    LET Returned(r) ==
            Pass(IF r.err # "nil" THEN NoContent
                 ELSE IF content.rep = "fill" THEN Sealed(content.v.n, r.out)
                 ELSE Doc("bytes", r.out), r.calls, r.err)
    IN  Returned(encryptFullFile(rt.p, rt.ck, rt.up,
                                 IF content.rep = "fill" THEN Empty ELSE Bytes(content),
                                 opts, rt.nonce, rt.now))

\* the switch of encryptValuesFile that attaches the metadata
AttachMetadata(rt, format, encrypted, opts) ==
    LET map == Metadata(opts, rt.now)
        visited == RangeOver(map, rt.order)
        Marshalled(j) ==
            Pass(IF j.err = "nil" THEN Doc("json", j.out) ELSE NoContent, << >>, j.err)
    IN  IF format = "yaml" THEN Pass(Doc("yaml", AddShhhMetadata(encrypted.v, visited)), << >>, "nil")
        ELSE IF format = "json" THEN Marshalled(AddJSONMetadata(encrypted.v, map))
        ELSE IF format = "ini"
        THEN Pass(Doc("ini", AddINIMetadata(encrypted.v, visited)), << >>, "nil")
        ELSE Pass(Doc("bytes", AddENVMetadata(encrypted.v, visited)), << >>, "nil")

encryptValuesFile(rt, content, filename, opts) ==
    LET tr == EncryptFunc(rt.p, rt.ck, rt.up, opts.Recipients, rt.nonce)
        Attached(encrypted, attached) == Pass(attached.out, encrypted.calls, attached.err)
        Encrypted(format, encrypted) ==
            IF encrypted.err # "nil" THEN encrypted
            ELSE Attached(encrypted, AttachMetadata(rt, format, encrypted.out, opts))
        Detected(format) ==
            IF format = "unknown" THEN EncryptFull(rt, content, opts)
            ELSE Encrypted(format, TransformValues(rt, format, content, tr))
    IN  Detected(DetectFormat(filename))

EncryptFileContent(rt, content, filename, opts) ==
    IF opts.Mode = ModeFull THEN EncryptFull(rt, content, opts)
    ELSE encryptValuesFile(rt, content, filename, opts)

\* the switch of decryptValuesFile that strips the metadata
StripMetadata(format, decrypted) ==
    LET Marshalled(j) ==
            Pass(IF j.err = "nil" THEN Doc("json", j.out) ELSE NoContent, << >>, j.err)
    IN  IF format = "yaml" THEN Pass(Doc("yaml", RemoveShhhMetadata(decrypted.v)), << >>, "nil")
        ELSE IF format = "json" THEN Marshalled(RemoveJSONMetadata(decrypted.v))
        ELSE IF format = "ini" THEN Pass(Doc("ini", RemoveINIMetadata(decrypted.v)), << >>, "nil")
        ELSE Pass(Doc("bytes", RemoveENVMetadata(decrypted.v)), << >>, "nil")

decryptValuesFile(rt, content, filename) ==
    LET Stripped(decrypted, stripped) == Pass(stripped.out, decrypted.calls, stripped.err)
        Decrypted(format, decrypted) ==
            IF decrypted.err # "nil" THEN decrypted
            ELSE Stripped(decrypted, StripMetadata(format, decrypted.out))
        Detected(format) ==
            IF format = "unknown" THEN Pass(NoContent, << >>, "UnsupportedFormat")
            ELSE Decrypted(format, TransformValues(rt, format, content,
                                                   DecryptFunc(rt.p, rt.ck, rt.up)))
    IN  Detected(DetectFormat(filename))

DecryptFileContent(rt, content, filename) ==
    LET Returned(d) ==
            Pass(IF d.err # "nil" THEN NoContent
                 ELSE IF content.rep = "sealed" THEN Fill(content.v.n)
                 ELSE Doc("bytes", d.out), d.calls, d.err)
        Read(bytes) ==
            IF IsFullyEncrypted(bytes)
            THEN Returned(decryptFullFile(rt.p, rt.ck, rt.up, bytes))
            ELSE decryptValuesFile(rt, content, filename)
    IN  Read(IF content.rep = "sealed" THEN content.v.envelope ELSE Bytes(content))

---------------------------------------------------------------------------
(* Reading the metadata: GetFileMetadata *)

\* strings.TrimPrefix
TrimPrefix(s, p) == IF HasPrefix(s, p) THEN SubSeq(s, Len(p) + 1, Len(s)) ELSE s

\* a map[string]string as its entries; Lookup is the index expression m[key],
\* which is "" for a key the map does not hold
Lookup(m, key) ==
    IF \E i \in 1..Len(m) : m[i].k = key
    THEN m[CHOOSE i \in 1..Len(m) : m[i].k = key /\ \A j \in (i + 1)..Len(m) : m[j].k # key].v
    ELSE Empty

\* FileMetadata, without EncryptedAt; none is the nil pointer
FileMetadata(version, vault, mode, recipients) ==
    [Version |-> version, Vault |-> vault, Mode |-> mode, Recipients |-> recipients,
     none |-> FALSE]
NilFileMetadata == [FileMetadata(Empty, Empty, Empty, << >>) EXCEPT !.none = TRUE]

\* the loop that splits a recipients string at the commas
SplitRecipients(recipients) ==
    LET parts == Split(recipients, 44)
        trimmed == [i \in 1..Len(parts) |-> TrimSpace(parts[i])]
    IN  SelectSeq(trimmed, LAMBDA p : p # Empty)

RECURSIVE DecimalText(_)
\* strconv.Itoa of a natural number
DecimalText(n) ==
    IF n < 10 THEN <<48 + n>> ELSE DecimalText(n \div 10) \o <<48 + (n % 10)>>

RECURSIVE IntValue(_, _, _)
\* the number the digits stand for in a base, after the digits read so far
IntValue(digits, base, acc) ==
    IF digits = Empty THEN acc
    ELSE IntValue(Tail(digits), base, acc * base + (Head(digits) - 48))

\* fmt.Sprintf("%v", v) of the Go value yaml.Unmarshal makes of a scalar node:
\* a string as it is; an integer in decimal (a literal with a leading zero is
\* octal when its digits allow it); a float without trailing zeros; a boolean
\* in lower case; null as <nil>; a timestamp as time.Time prints it
GoValueText(node) ==
    LET v == node.value
        digits == IF v # Empty /\ v[1] \in {43, 45} THEN Tail(v) ELSE v
        sign == IF v # Empty /\ v[1] = 45 THEN <<45>> ELSE Empty
        octal == Len(digits) > 1 /\ digits[1] = 48 /\ \A i \in 1..Len(digits) : digits[i] < 56
    IN  IF node.tag = "!!int"
        THEN sign \o DecimalText(IntValue(digits, IF octal THEN 8 ELSE 10, 0))
        ELSE IF node.tag = "!!float" THEN Float64Text(v)
        ELSE IF node.tag = "!!bool" THEN ToLower(v)
        ELSE IF node.tag = "!!null" THEN T(<<"<", "n", "i", "l", ">">>)
        ELSE IF node.tag = "!!timestamp"
        THEN SubSeq(v, 1, 10) \o <<Ch.sp>> \o SubSeq(v, 12, 19) \o (<<Ch.sp>> \o T(<<"+", "0", "0", "0", "0">>) \o <<Ch.sp>> \o T(<<"U", "T", "C">>))
        ELSE v

RECURSIVE HasDuplicateKey(_)
\* a mapping of the tree has a key twice, which the decoder refuses
HasDuplicateKey(node) ==
    \/ /\ node.kind = "map"
       /\ \E i, j \in 1..Len(node.content) :
              i % 2 = 1 /\ j % 2 = 1 /\ i < j /\ node.content[i].value = node.content[j].value
    \/ \E i \in 1..Len(node.content) : HasDuplicateKey(node.content[i])

\* parser.GetShhhMetadata: the document is read into a map[string]interface{}
GetShhhMetadata(root) ==
    LET top == root.content[1]
        at == {i \in 1..Len(top.content) : i % 2 = 1 /\ top.content[i].value = ShhhKey}
        shhh == top.content[(CHOOSE i \in at : TRUE) + 1]
    IN  IF root.content = << >> THEN Pass(<< >>, << >>, "NoMetadata")
        ELSE IF top.kind = "scalar" /\ top.tag = "!!null" THEN Pass(<< >>, << >>, "NoMetadata")
        ELSE IF top.kind # "map" THEN Pass(<< >>, << >>, "UnmarshalTypeError")
        ELSE IF HasDuplicateKey(top) THEN Pass(<< >>, << >>, "KeyAlreadyDefined")
        ELSE IF at = {} THEN Pass(<< >>, << >>, "NoMetadata")
        ELSE IF shhh.kind # "map" THEN Pass(<< >>, << >>, "NoMetadata")
        ELSE Pass([i \in 1..(Len(shhh.content) \div 2) |->
                      [k |-> shhh.content[2 * i - 1].value,
                       v |-> GoValueText(shhh.content[2 * i])]], << >>, "nil")

\* parser.GetJSONMetadata, and the loop of GetFileMetadata that formats its
\* values: a string as it is, a number as the float64 it was read into
GetJSONMetadata(content) ==
    LET data == JSONUnmarshal(content)
        shhh == Lookup(data.kids, ShhhKey)
    IN  IF data.t = "null" THEN Pass(<< >>, << >>, "NoMetadata")
        ELSE IF data.t # "obj" THEN Pass(<< >>, << >>, "UnmarshalTypeError")
        ELSE IF \A i \in 1..Len(data.kids) : data.kids[i].k # ShhhKey
        THEN Pass(<< >>, << >>, "NoMetadata")
        ELSE IF shhh.t # "obj" THEN Pass(<< >>, << >>, "NoMetadata")
        ELSE Pass([i \in 1..Len(shhh.kids) |->
                      [k |-> shhh.kids[i].k,
                       v |-> IF shhh.kids[i].v.t = "null" THEN T(<<"<", "n", "i", "l", ">">>)
                             ELSE shhh.kids[i].v.v]], << >>, "nil")

\* parser.GetINIMetadata: cfg.Section makes the section if the file has none
GetINIMetadata(content) ==
    LET file == INILoad(content)
        at == {i \in 1..Len(file) : file[i].name = ShhhKey}
    IN  Pass(IF at = {} THEN << >> ELSE file[CHOOSE i \in at : TRUE].keys, << >>, "nil")

\* parser.GetENVMetadata
GetENVMetadata(content) ==
    LET lines == ScanLines(content)
        trimmed == [i \in 1..Len(lines) |-> TrimSpace(lines[i])]
        entries == SelectSeq(trimmed,
                             LAMBDA line : HasPrefix(line, ShhhEnvPrefix) /\ IndexByte(line, 61) # 0)
    IN  Pass([i \in 1..Len(entries) |->
                 [k |-> ToLower(TrimPrefix(SubSeq(entries[i], 1, IndexByte(entries[i], 61) - 1),
                                           ShhhEnvPrefix)),
                  v |-> SubSeq(entries[i], IndexByte(entries[i], 61) + 1, Len(entries[i]))]],
             << >>, "nil")

RECURSIVE HeaderLines(_)
\* the lines parseFullFileMetadata reads: up to the first empty one
HeaderLines(lines) ==
    IF lines = << >> \/ TrimSpace(Head(lines)) = Empty THEN << >>
    ELSE <<TrimSpace(Head(lines))>> \o HeaderLines(Tail(lines))

\* parseFullFileMetadata: of several lines of a field the last one is kept,
\* and the recipients of all of them
parseFullFileMetadata(content) ==
    LET lines == HeaderLines(Split(content, Ch.nl))
        Field(name) ==
            LET with == SelectSeq(lines, LAMBDA line : HasPrefix(line, name))
            IN  IF with = << >> THEN Empty
                ELSE TrimSpace(TrimPrefix(with[Len(with)], name))
        rs == SelectSeq(lines, LAMBDA line : HasPrefix(line, T(<<"R", "e", "c", "i", "p", "i", "e", "n", "t", "s", ":">>)))
    IN  FileMetadata(Field(T(<<"V", "e", "r", "s", "i", "o", "n", ":">>)), Field(T(<<"V", "a", "u", "l", "t", ":">>)), Field(T(<<"M", "o", "d", "e", ":">>)),
                     Concat([i \in 1..Len(rs) |->
                                SplitRecipients(TrimSpace(TrimPrefix(rs[i], T(<<"R", "e", "c", "i", "p", "i", "e", "n", "t", "s", ":">>))))]))

\* crypto.GetFileMetadata(content, filename) on a content the parser of the
\* file's format can read
GetFileMetadata(content, filename) ==
    LET format == DetectFormat(filename)
        Result(meta) ==
            IF meta.err = "NoMetadata" THEN Pass(NilFileMetadata, << >>, "nil")
            ELSE IF meta.err # "nil" THEN Pass(NilFileMetadata, << >>, meta.err)
            ELSE Pass(FileMetadata(Lookup(meta.out, T(<<"v", "e", "r", "s", "i", "o", "n">>)), Lookup(meta.out, T(<<"v", "a", "u", "l", "t">>)),
                                   Lookup(meta.out, T(<<"m", "o", "d", "e">>)),
                                   SplitRecipients(Lookup(meta.out, T(<<"r", "e", "c", "i", "p", "i", "e", "n", "t", "s">>)))),
                      << >>, "nil")
    IN  IF IsFullyEncrypted(Bytes(content))
        THEN Pass(parseFullFileMetadata(Bytes(content)), << >>, "nil")
        ELSE IF format = "yaml" THEN Result(GetShhhMetadata(content.v))
        ELSE IF format = "ini" THEN Result(GetINIMetadata(content.v))
        ELSE IF format = "env" THEN Result(GetENVMetadata(Bytes(content)))
        ELSE IF format = "json" THEN Result(GetJSONMetadata(content.v))
        ELSE Pass(NilFileMetadata, << >>, "nil")

---------------------------------------------------------------------------
(* The store: the .shhh directory of a project, internal/store *)

ShhhDir == T(<<".", "s", "h", "h", "h">>)
ConfigFile == T(<<"c", "o", "n", "f", "i", "g", ".", "j", "s", "o", "n">>)
VaultsDir == T(<<"v", "a", "u", "l", "t", "s">>)
PubkeysDir == T(<<"p", "u", "b", "k", "e", "y", "s">>)
UsersFile == T(<<"u", "s", "e", "r", "s", ".", "j", "s", "o", "n">>)
FilesFile == T(<<"f", "i", "l", "e", "s", ".", "j", "s", "o", "n">>)
DefaultVault == T(<<"d", "e", "f", "a", "u", "l", "t">>)

RECURSIVE CleanElements(_, _, _)
\* filepath.Clean on the elements of a path: empty elements and "." fall
\* away, ".." steps to the parent; at the root ".." falls away when the path
\* is rooted and stays when it is not
CleanElements(done, rest, rooted) ==
    IF rest = << >> THEN done
    ELSE IF Head(rest) \in {Empty, T(<<".">>)} THEN CleanElements(done, Tail(rest), rooted)
    ELSE IF Head(rest) = T(<<".", ".">>)
    THEN CleanElements(IF done # << >> /\ done[Len(done)] # T(<<".", ".">>)
                       THEN SubSeq(done, 1, Len(done) - 1)
                       ELSE IF rooted THEN done
                       ELSE Append(done, Head(rest)),
                       Tail(rest), rooted)
    ELSE CleanElements(Append(done, Head(rest)), Tail(rest), rooted)

\* filepath.Join(dir, name) where the separator is "/": a path is the
\* sequence of its elements from the project root, which the model takes
\* for the root of the file system
JoinPath(dir, name) == CleanElements(dir, Split(name, Ord["/"]), TRUE)

ShhhPath == <<ShhhDir>>
ConfigPath == JoinPath(ShhhPath, ConfigFile)
VaultsPath == JoinPath(ShhhPath, VaultsDir)
VaultPath(name) == JoinPath(VaultsPath, name)
VaultUsersPath(vault) == JoinPath(VaultPath(vault), UsersFile)
VaultFilesPath(vault) == JoinPath(VaultPath(vault), FilesFile)
PubkeysPath == JoinPath(ShhhPath, PubkeysDir)

\* no config.json
NoConfig == [present |-> FALSE, DefaultVault |-> Empty, GPGCopy |-> FALSE]

\* the project directory before shhh init: the directories, the users.json,
\* files.json and cached public key files by their paths, and config.json
NoDisk ==
    [dirs |-> {<< >>}, users |-> << >>, files |-> << >>, pubkeys |-> << >>,
     config |-> NoConfig]

\* p is q, or lies below q
Under(p, q) == Len(p) >= Len(q) /\ SubSeq(p, 1, Len(q)) = q

\* the regular files of the disk
RegularFiles(disk) ==
    DOMAIN disk.users \cup DOMAIN disk.files \cup DOMAIN disk.pubkeys \cup
    (IF disk.config.present THEN {ConfigPath} ELSE {})

\* os.Stat(p) returns no error
StatOk(disk, p) == p \in disk.dirs \/ p \in RegularFiles(disk)

\* os.Stat(p) returns no error and IsDir()
IsDir(disk, p) == p \in disk.dirs

\* os.MkdirAll(p) can succeed: no element of p is a regular file
CanMkdirAll(disk, p) == \A i \in 0..Len(p) : SubSeq(p, 1, i) \notin RegularFiles(disk)

\* os.MkdirAll(p)
MkdirAll(disk, p) ==
    [disk EXCEPT !.dirs = disk.dirs \cup {SubSeq(p, 1, i) : i \in 0..Len(p)}]

\* os.RemoveAll(p): p and everything below it
RemoveAll(disk, p) ==
    [dirs |-> {d \in disk.dirs : ~Under(d, p)},
     users |-> [f \in {g \in DOMAIN disk.users : ~Under(g, p)} |-> disk.users[f]],
     files |-> [f \in {g \in DOMAIN disk.files : ~Under(g, p)} |-> disk.files[f]],
     pubkeys |-> [f \in {g \in DOMAIN disk.pubkeys : ~Under(g, p)} |-> disk.pubkeys[f]],
     config |-> IF Under(ConfigPath, p) THEN NoConfig ELSE disk.config]

\* the last operation on the store: its arguments, its error, what it
\* returned, and the disk before and after it
StoreCall(op, vault, path, rcpts, err, out, before, disk) ==
    [op |-> op, vault |-> vault, path |-> path, rcpts |-> rcpts, err |-> err,
     out |-> out, before |-> before, disk |-> disk]

NoStore == StoreCall("none", Empty, Empty, << >>, "nil", << >>, NoDisk, NoDisk)

\* validateName
validateName(name) ==
    IF name = Empty THEN "EmptyName"
    ELSE IF name \in {T(<<".">>), T(<<".", ".">>)} THEN "DotName"
    ELSE IF \E i \in 1..Len(name) : name[i] \in {Ord["/"], Ch.bs, 0} THEN "InvalidCharacters"
    ELSE "nil"

\* Store.IsInitialized
IsInitialized(disk) == IsDir(disk, ShhhPath)

\* Store.VaultExists
VaultExists(disk, name) == IsDir(disk, VaultPath(name))

\* Store.ListVaults: the directories in the vaults directory
ListVaults(disk) == {d \in disk.dirs : Len(d) = Len(VaultsPath) + 1 /\ Under(d, VaultsPath)}

\* the disk after Store.Initialize
Initialized(disk) ==
    MkdirAll(MkdirAll(MkdirAll(MkdirAll(disk, ShhhPath), VaultsPath),
                      VaultPath(DefaultVault)), PubkeysPath)

\* the result of a store operation: the error and the disk it leaves
Stored(err, disk) == [err |-> err, disk |-> disk]

\* Store.Initialize
StoreInitialize(disk) ==
    IF IsInitialized(disk) THEN Stored("AlreadyInitialized", disk)
    ELSE IF ~CanMkdirAll(disk, ShhhPath) THEN Stored("MkdirFailed", disk)
    ELSE Stored("nil", Initialized(disk))

\* Store.CreateVault
StoreCreateVault(disk, name) ==
    IF validateName(name) # "nil" THEN Stored("InvalidVaultName", disk)
    ELSE IF StatOk(disk, VaultPath(name)) THEN Stored("VaultExists", disk)
    ELSE IF ~CanMkdirAll(disk, VaultPath(name)) THEN Stored("MkdirFailed", disk)
    ELSE Stored("nil", MkdirAll(disk, VaultPath(name)))

\* Store.RemoveVault
StoreRemoveVault(disk, name) ==
    IF name = DefaultVault THEN Stored("CannotRemoveDefault", disk)
    ELSE IF ~StatOk(disk, VaultPath(name)) THEN Stored("VaultDoesNotExist", disk)
    ELSE Stored("nil", RemoveAll(disk, VaultPath(name)))

---------------------------------------------------------------------------
(* The provider state machine: the handle, the key stores and the calls    *)
(* made through crypto.GetProvider()                                       *)

\* how many recipients a call names at most
MaxRecipients == 2

\* how many different session keys an encryption can draw
NumNonces == 1

RECURSIVE ListsUpTo(_, _)
\* the duplicate-free sequences over S of length at most n
ListsUpTo(S, n) ==
    IF n = 0 THEN {<< >>}
    ELSE LET shorter == ListsUpTo(S, n - 1)
         IN  shorter \cup
             {l \in {Append(k, x) : k \in shorter, x \in S} :
                  \A i, j \in 1..Len(l) : i # j => l[i] # l[j]}

Emails == {Alice, Bob, Carol}
RecipientLists == ListsUpTo(Emails, MaxRecipients)
Nonces == 1..NumNonces

\* the secrets that get encrypted
Plaintexts == {T(<<"s", "3", "c">>), T(<<"p", "w">>)}

\* what NewNativeGPG may find in GNUPGHOME
DiskKeyrings ==
    { << >>,
      <<Entity(1, FALSE), Entity(2, FALSE)>>,
      <<Entity(2, TRUE)>>,
      <<Entity(1, TRUE), Entity(2, FALSE)>> }

\* what the gpg program may hold
CliKeyrings ==
    { {},
      {Entity(1, TRUE)},
      {Entity(1, TRUE), Entity(2, FALSE)} }

\* the entities a test adds to a fresh NativeGPG before installing it
TestEntityLists ==
    { <<Entity(1, TRUE)>>, <<Entity(2, TRUE)>>, <<Entity(1, TRUE), Entity(2, TRUE)>> }

\* markers that no EncryptValue produced: not armored, and cut short
ForeignMarkers ==
    { EncPrefix \o Base64Encode(T(<<"a", "b", "c">>)) \o EncSuffix,
      EncPrefix \o Base64Encode(ArmorHead \o <<BlockType.message>>) \o EncSuffix,
      EncPrefix \o T(<<"A", "=", "A", "A">>) \o EncSuffix }

\* armored key blocks offered for import, good and bad
ImportInputs ==
    {ArmoredKey(k) : k \in KeyIds} \cup
    {ArmoredNothing, T(<<"j", "u", "n", "k">>), ArmorHead \o <<BlockType.message>>}

\* how many entities a keyring takes by import
MaxKeyring == 1

\* EncryptOptions
Options(vault, mode, recipients) == [Vault |-> vault, Mode |-> mode, Recipients |-> recipients]

\* no engine call in progress. Of a call: content is the input and res the
\* pass; plain is the plaintext content the input is, or was encrypted from,
\* and opts the options of that encryption; again says that the input of an
\* encryption had been encrypted before
NoRun == [op |-> "idle", filename |-> Empty, content |-> NoContent,
          opts |-> Options(Empty, Empty, << >>), res |-> Pass(NoContent, << >>, "nil"),
          provider |-> NilProvider, ck |-> {}, up |-> TRUE, plain |-> NoContent,
          again |-> FALSE]

\* a path with no file at it
NoFile == Doc("absent", Empty)

\* a config.RegisteredFile (Path, Mode) of a vault, what GetEffectiveRecipients
\* and GetEffectiveGPGCopy return for it, the files at plainPath, at
\* plainPath + ".enc" and at plainPath + ".gpg", and how often the user has
\* edited them by hand
Worktree(path, vault, mode, gpgCopy, recipients, plain) ==
    [Path |-> path, Vault |-> vault, Mode |-> mode, GPGCopy |-> gpgCopy,
     recipients |-> recipients, plain |-> plain, enc |-> NoFile, gpg |-> NoFile,
     edits |-> 0]

\* no project
NoWorktree == Worktree(Empty, Empty, Empty, FALSE, << >>, NoFile)

\* no call in progress; pt and rcpts are what the value in data was encrypted from
Idle == [op |-> "idle", provider |-> NilProvider, ck |-> {}, up |-> TRUE,
         email |-> Empty, data |-> Empty, pt |-> Empty, rcpts |-> << >>,
         res |-> Err("nil"), primary |-> Err("nil"), calls |-> << >>]

InitProvider ==
    /\ defaultProvider = NilProvider
    /\ diskKeyring \in DiskKeyrings
    /\ cliKeyring \in CliKeyrings
    /\ call = Idle
    /\ run = NoRun
    /\ worktree = NoWorktree
    /\ store = NoStore
    /\ goroutines = << >>

\* SetProvider(p): nil, or a fresh NativeGPG with the test's entities added;
\* called between calls, or between an encryption and its decryption
SetProvider(p) ==
    /\ call.op \in {"idle", "EncryptValue"}
    /\ run.op \in {"idle", "EncryptFileContent"}
    /\ defaultProvider' = SetProviderValue(p)
    /\ UNCHANGED <<cliKeyring, diskKeyring, call, run, worktree, store, goroutines>>

\* GetProvider().LookupKey(email)
LookupKeyCall(email, up, ser) ==
    LET p == GetProvider(defaultProvider, diskKeyring)
        r == ProviderLookupKey(p, cliKeyring, up, ser, email)
    IN  /\ call.op = "idle"
        /\ defaultProvider' = p
        /\ call' = [Idle EXCEPT !.op = "LookupKey", !.provider = p, !.ck = cliKeyring,
                                !.up = up, !.email = email,
                                !.res = r.res, !.primary = r.primary, !.calls = r.calls]
        /\ UNCHANGED <<cliKeyring, diskKeyring, run, worktree, store, goroutines>>

\* GetProvider().GetPublicKey(email)
GetPublicKeyCall(email, up, ser) ==
    LET p == GetProvider(defaultProvider, diskKeyring)
        r == ProviderGetPublicKey(p, cliKeyring, up, ser, email)
    IN  /\ call.op = "idle"
        /\ defaultProvider' = p
        /\ call' = [Idle EXCEPT !.op = "GetPublicKey", !.provider = p, !.ck = cliKeyring,
                                !.up = up, !.email = email,
                                !.res = r.res, !.primary = r.primary, !.calls = r.calls]
        /\ UNCHANGED <<cliKeyring, diskKeyring, run, worktree, store, goroutines>>

\* GetProvider().ImportPublicKey(armoredKey); both backends keep what they import
ImportPublicKeyCall(armoredKey, up, ser) ==
    LET p == GetProvider(defaultProvider, diskKeyring)
        r == ProviderImportPublicKey(p, cliKeyring, up, ser, armoredKey)
    IN  /\ call.op = "idle"
        /\ Len(p.keyring) < MaxKeyring
        /\ defaultProvider' = [p EXCEPT !.keyring = NativeImportKeyring(p.keyring, armoredKey)]
        /\ cliKeyring' = IF Len(r.calls) = 2
                         THEN CLIImportKeyring(cliKeyring, up, armoredKey) ELSE cliKeyring
        /\ call' = [Idle EXCEPT !.op = "ImportPublicKey", !.provider = p, !.ck = cliKeyring,
                                !.up = up, !.data = armoredKey,
                                !.res = r.res, !.primary = r.primary, !.calls = r.calls]
        /\ UNCHANGED <<diskKeyring, run, worktree, store, goroutines>>

\* crypto.EncryptValue(plaintext, recipients)
EncryptValueCall(plaintext, recipients, nonce, up) ==
    LET p == GetProvider(defaultProvider, diskKeyring)
        r == EncryptValue(p, cliKeyring, up, plaintext, recipients, nonce)
    IN  /\ call.op = "idle"
        /\ defaultProvider' = IF Len(recipients) = 0 THEN defaultProvider ELSE p
        /\ call' = [Idle EXCEPT !.op = "EncryptValue", !.provider = p, !.ck = cliKeyring,
                                !.up = up, !.pt = plaintext, !.rcpts = recipients,
                                !.res = r.res, !.primary = r.primary, !.calls = r.calls]
        /\ UNCHANGED <<cliKeyring, diskKeyring, run, worktree, store, goroutines>>

\* crypto.DecryptValue(encoded), of a value that pt was encrypted to rcpts into
DecryptValueCall(encoded, pt, rcpts, up) ==
    LET p == GetProvider(defaultProvider, diskKeyring)
        r == DecryptValue(p, cliKeyring, up, encoded)
    IN  /\ defaultProvider' = IF r.calls = << >> THEN defaultProvider ELSE p
        /\ call' = [Idle EXCEPT !.op = "DecryptValue", !.provider = p, !.ck = cliKeyring,
                                !.up = up, !.data = encoded, !.pt = pt, !.rcpts = rcpts,
                                !.res = r.res, !.primary = r.primary, !.calls = r.calls]
        /\ UNCHANGED <<cliKeyring, diskKeyring, run, worktree, store, goroutines>>

\* the value EncryptValue has just returned is decrypted, perhaps after the
\* provider was swapped
DecryptEncrypted(up) ==
    /\ call.op = "EncryptValue"
    /\ call.res.err = "nil"
    /\ DecryptValueCall(call.res.out, call.pt, call.rcpts, up)

\* a value from elsewhere is decrypted
DecryptForeign(encoded, up) ==
    /\ call.op = "idle"
    /\ DecryptValueCall(encoded, Empty, << >>, up)

\* the call returns to its caller
Return ==
    /\ call.op # "idle"
    /\ call' = Idle
    /\ UNCHANGED <<defaultProvider, cliKeyring, diskKeyring, run, worktree, store, goroutines>>

NextProvider ==
    \/ SetProvider(NilProvider)
    \/ \E es \in TestEntityLists : SetProvider(NativeProvider(diskKeyring \o es))
    \/ \E email \in Emails, up, ser \in BOOLEAN : LookupKeyCall(email, up, ser)
    \/ \E email \in Emails, up, ser \in BOOLEAN : GetPublicKeyCall(email, up, ser)
    \/ \E a \in ImportInputs, up, ser \in BOOLEAN : ImportPublicKeyCall(a, up, ser)
    \/ \E pt \in Plaintexts, rs \in RecipientLists, n \in Nonces, up \in BOOLEAN :
           EncryptValueCall(pt, rs, n, up)
    \/ \E up \in BOOLEAN : DecryptEncrypted(up)
    \/ \E m \in ForeignMarkers \cup Plaintexts, up \in BOOLEAN : DecryptForeign(m, up)
    \/ Return

SpecProvider == InitProvider /\ [][NextProvider]_vars

---------------------------------------------------------------------------
(* The engine state machine: files are encrypted, edited and encrypted      *)
(* again, and decrypted, under the provider of the handle                  *)

\* a plain !!str scalar, as a mapping key or an unquoted word is read
Str(value) == Scalar("!!str", "plain", value)

\* the files of the model: a name and the content
File(name, content) == [name |-> name, content |-> content]

\* the YAML document of TestValueModePreservesStructure
StructureYAML ==
    Doc("yaml", DocumentNode(<<Mapping(
        <<Str(T(<<"d", "a", "t", "a", "b", "a", "s", "e">>)),
          Mapping(<<Str(T(<<"h", "o", "s", "t">>)), Str(T(<<"l", "o", "c", "a", "l", "h", "o", "s", "t">>)),
                    Str(T(<<"p", "a", "s", "s", "w", "o", "r", "d">>)), Str(T(<<"s", "e", "c", "r", "e", "t", "1", "2", "3">>))>>)>>)>>))

\* a YAML document with an integer, a quoted string and a sequence
TypedYAML ==
    Doc("yaml", DocumentNode(<<Mapping(
        <<Str(T(<<"p", "o", "r", "t">>)), Scalar("!!int", "plain", T(<<"5", "4", "3", "2">>)),
          Str(T(<<"n", "a", "m", "e">>)), Scalar("!!str", "dq", T(<<"p", "w", "!">>)),
          Str(T(<<"t", "a", "g", "s">>)), SequenceNode(<<Str(T(<<"x", "1">>))>>)>>)>>))

\* a JSON document whose keys are not in order, with a number in it
NestedJSON ==
    Doc("json", JObj(<<[k |-> T(<<"b">>), v |-> JStr(T(<<"s", "3", "c", "!">>))],
                       [k |-> T(<<"a">>), v |-> JObj(<<[k |-> T(<<"p", "i", "n">>), v |-> JNum(T(<<"1", "2", "3", "4">>))]>>)]>>))

\* a JSON document as the encoder would write it
PlainJSON == Doc("json", JObj(<<[k |-> T(<<"u", "s", "e", "r">>), v |-> JStr(T(<<"s", "3", "c", "!">>))]>>))

PlainINI ==
    Doc("ini", <<INISection(T(<<"d", "b">>), <<[k |-> T(<<"p", "a", "s", "s", "w", "o", "r", "d">>), v |-> T(<<"s", "3", "c", "!">>)],
                                      [k |-> T(<<"h", "o", "s", "t">>), v |-> T(<<"h", "1">>)]>>)>>)

PlainENV == Doc("bytes", (T(<<"A", "P", "I", "=", "s", "3", "c", "!">>) \o <<Ch.nl>>))
QuotedENV == Doc("bytes", (T(<<"K", "E", "Y", "=">>) \o <<Ch.dq>> \o T(<<"s", "3", "c", "!">>) \o <<Ch.dq>> \o <<Ch.nl>>))

\* bytes with blank lines in them and no newline at the end
TextBytes == Doc("bytes", (T(<<"h", "e", "l", "l", "o">>) \o <<Ch.nl>> \o <<Ch.nl>> \o T(<<"w", "o", "r", "l", "d">>)))

\* how long the longest content is: long enough for a second body line
LongLen == 50

\* bytes of every kind
BinaryBytes == Doc("bytes", [i \in 1..LongLen |-> (i * 37) % 256])

\* files at the size ceiling and one byte over it
LargeFiles ==
    { File(T(<<"b", "i", "g", ".", "y", "a", "m", "l">>), Fill(MaxFileSize + 1)), File(T(<<"b", "i", "g", ".", "e", "n", "v">>), Fill(MaxFileSize + 1)),
      File(T(<<"b", "i", "g", ".", "b", "i", "n">>), Fill(MaxFileSize + 1)), File(T(<<"m", "a", "x", ".", "b", "i", "n">>), Fill(MaxFileSize)) }

Files ==
    { File(T(<<"s", ".", "y", "a", "m", "l">>), StructureYAML), File(T(<<"t", ".", "y", "m", "l">>), TypedYAML),
      File(T(<<"c", ".", "j", "s", "o", "n">>), NestedJSON), File(T(<<"d", ".", "J", "S", "O", "N">>), PlainJSON),
      File(T(<<"e", ".", "i", "n", "i">>), PlainINI), File(T(<<"f", ".", "e", "n", "v">>), PlainENV), File(T(<<"q", ".", "e", "n", "v">>), QuotedENV),
      File(T(<<"g", ".", "t", "x", "t">>), TextBytes), File(T(<<"h", ".", "b", "i", "n">>), BinaryBytes), File(T(<<"e", "m", "p", "t", "y">>), Doc("bytes", Empty)) }

\* vault names validateName accepts: a word, and a name with an empty line in it
Vaults == {T(<<"d", "e", "v">>), (T(<<"a">>) \o <<Ch.nl>> \o <<Ch.nl>> \o T(<<"b">>))}

\* the recipient lists of the engine calls
EngineRecipients == {<< >>, <<Alice>>, <<Bob>>, <<Alice, Bob>>, <<Carol>>}

EngineOptions ==
    {Options(v, m, r) : v \in Vaults, m \in {ModeValues, ModeFull}, r \in EngineRecipients}

\* time.Now().Format(time.RFC3339)
Times == {T(<<"2", "0", "2", "6", "-", "0", "1", "-", "0", "2", "T", "0", "3", ":", "0", "4", ":", "0", "5", "Z">>)}

\* two of the orders in which a range loop can visit the five metadata entries
MetadataOrders == {<<1, 2, 3, 4, 5>>, <<5, 3, 1, 4, 2>>}

\* what an edit adds to an encrypted document: a string, or a number
NewEntries == {[k |-> T(<<"e", "x", "t", "r", "a">>), v |-> T(<<"p", "w", "!">>), t |-> "str"],
               [k |-> T(<<"c", "o", "u", "n", "t">>), v |-> T(<<"4", "2">>), t |-> "num"]}

\* the content after the user has added the entry by hand
AddEntry(content, e) ==
    IF content.rep = "yaml"
    THEN LET top == content.v.content[1]
         IN  Doc("yaml", DocumentNode(<<[top EXCEPT !.content =
                 top.content \o <<Str(e.k), Scalar(Resolve(e.v), "plain", e.v)>>]>>))
    ELSE IF content.rep = "json"
    THEN Doc("json", [content.v EXCEPT !.kids =
             content.v.kids \o <<[k |-> e.k, v |-> IF e.t = "num" THEN JNum(e.v) ELSE JStr(e.v)]>>])
    ELSE IF content.rep = "ini"
    THEN Doc("ini", [i \in 1..Len(content.v) |->
             IF i = 1 THEN INISection(content.v[i].name, SetKey(content.v[i].keys, e.k, e.v))
             ELSE content.v[i]])
    ELSE Doc("bytes", content.v \o e.k \o <<61>> \o e.v \o <<Ch.nl>>)

\* a pass made a backend call, so GetProvider was called
UsedProvider(r) == \E i \in 1..Len(r.calls) : r.calls[i].backend # << >>

InitEngine ==
    /\ defaultProvider = NilProvider
    /\ diskKeyring = << >>
    /\ cliKeyring = {Entity(1, TRUE), Entity(2, FALSE)}
    /\ call = Idle
    /\ run = NoRun
    /\ worktree = NoWorktree
    /\ store = NoStore
    /\ goroutines = << >>

\* the runtime of an engine call in the current state
Here(up, nonce, now, order, desc) ==
    Runtime(GetProvider(defaultProvider, diskKeyring), cliKeyring, up, nonce, now, order, desc)

\* the order in which the metadata map is written down
LiteralOrder == <<1, 2, 3, 4, 5>>

\* the parts of a runtime that a call does not come to use have one value: gpg
\* runs only behind the fallback provider, the maps of a JSON document are
\* visited only in values mode on a JSON file, and the metadata map by the
\* other formats
Used(rt, filename, mode) ==
    LET values == mode = ModeValues
        format == DetectFormat(filename)
    IN  /\ ~rt.up => rt.p.kind = "fallback"
        /\ rt.desc => (values /\ format = "json")
        /\ rt.order # LiteralOrder => (values /\ format \in {"yaml", "ini", "env"})

\* crypto.EncryptFileContent(content, filename, opts) under the handle's provider
EncryptCall(filename, content, opts, plain, again, rt) ==
    /\ Readable(content, DetectFormat(filename))
    /\ Used(rt, filename, opts.Mode)
    /\ run' = [op |-> "EncryptFileContent", filename |-> filename, content |-> content,
               opts |-> opts, res |-> EncryptFileContent(rt, content, filename, opts),
               provider |-> rt.p, ck |-> rt.ck, up |-> rt.up, plain |-> plain,
               again |-> again]
    /\ defaultProvider' = IF UsedProvider(run'.res) THEN rt.p ELSE defaultProvider
    /\ UNCHANGED <<cliKeyring, diskKeyring, call, worktree, store, goroutines>>

\* a plaintext file is encrypted
EncryptFile(f, opts, rt) ==
    /\ run.op = "idle"
    /\ EncryptCall(f.name, f.content, opts, f.content, FALSE, rt)

\* an entry is added to a file encrypted in values mode, and the file is
\* encrypted again with the same options
EncryptAgain(e, rt) ==
    /\ run.op = "EncryptFileContent"
    /\ ~run.again
    /\ run.res.err = "nil"
    /\ run.opts.Mode = ModeValues
    /\ DetectFormat(run.filename) # "unknown"
    /\ EncryptCall(run.filename, AddEntry(run.res.out, e), run.opts, AddEntry(run.plain, e),
                   TRUE, rt)

\* crypto.DecryptFileContent(content, filename) of what the encryption returned
DecryptFile(up, desc) ==
    LET rt == Here(up, 0, Empty, LiteralOrder, desc)
    IN  /\ run.op = "EncryptFileContent"
        /\ run.res.err = "nil"
        /\ Used(rt, run.filename, run.opts.Mode)
        /\ run' = [run EXCEPT !.op = "DecryptFileContent", !.content = run.res.out,
                              !.res = DecryptFileContent(rt, run.res.out, run.filename),
                              !.provider = rt.p, !.ck = rt.ck, !.up = rt.up]
        /\ defaultProvider' = IF UsedProvider(run'.res) THEN rt.p ELSE defaultProvider
        /\ UNCHANGED <<cliKeyring, diskKeyring, call, worktree, store, goroutines>>

\* the engine call returns to its caller
ReturnFile ==
    /\ run.op # "idle"
    /\ run' = NoRun
    /\ UNCHANGED <<defaultProvider, cliKeyring, diskKeyring, call, worktree, store, goroutines>>

NextEngine ==
    \/ SetProvider(NilProvider)
    \/ \E es \in TestEntityLists : SetProvider(NativeProvider(diskKeyring \o es))
    \/ \E large, up, desc \in BOOLEAN, opts \in EngineOptions, nonce \in Nonces,
          now \in Times, order \in MetadataOrders :
           \E f \in (IF large THEN LargeFiles ELSE Files) :
               EncryptFile(f, opts, Here(up, nonce, now, order, desc))
    \/ \E e \in NewEntries, up, desc \in BOOLEAN, nonce \in Nonces, now \in Times,
          order \in MetadataOrders :
           EncryptAgain(e, Here(up, nonce, now, order, desc))
    \/ \E up, desc \in BOOLEAN : DecryptFile(up, desc)
    \/ ReturnFile

SpecEngine == InitEngine /\ [][NextEngine]_vars

---------------------------------------------------------------------------
(* The parser state machine: the parser of a format is given a document    *)
(* and the function to apply to its values                                 *)

\* a YAML mapping of a password and a branch of nested sequences down to a
\* scalar, the branch before the password or after it
DeepYAML(levels, first) ==
    LET pw == <<Str(T(<<"p", "w">>)), Str(T(<<"s", "3", "c", "!">>))>>
        deep == <<Str(T(<<"d", "e", "e", "p">>)), NestedSequences(levels, Str(T(<<"x", "1">>)))>>
    IN  Doc("yaml", DocumentNode(<<Mapping(IF first THEN deep \o pw ELSE pw \o deep)>>))

\* a JSON object of a password and a branch of nested arrays down to a string
DeepJSON(levels) ==
    Doc("json", JObj(<<[k |-> T(<<"a">>), v |-> JStr(T(<<"s", "3", "c", "!">>))],
                       [k |-> T(<<"d">>), v |-> NestedArrays(levels, JStr(T(<<"x", "1">>)))]>>))

\* the deepest branches a parser accepts, and branches one and three levels
\* deeper: a YAML document node is at depth 0, its mapping at depth 1 and the
\* scalar of the branch at depth levels + 2; a JSON object is at depth 0 and
\* the string of the branch at depth levels + 1
DeepYAMLFiles ==
    {File(T(<<"n", ".", "y", "a", "m", "l">>), DeepYAML(levels, first)) :
         levels \in {MaxNestingDepth - 2, MaxNestingDepth - 1, MaxNestingDepth + 1},
         first \in BOOLEAN}
DeepJSONFiles ==
    {File(T(<<"n", ".", "j", "s", "o", "n">>), DeepJSON(levels)) :
         levels \in {MaxNestingDepth - 1, MaxNestingDepth, MaxNestingDepth + 2}}

\* the provider of the parser tests: a NativeGPG that holds Alice's key pair
ParserProvider == NativeProvider(<<Entity(1, TRUE)>>)

\* a document after EncryptValues to Alice
Encrypted(f) ==
    File(f.name,
         TransformValues(Runtime(ParserProvider, {}, TRUE, 1, Empty, LiteralOrder, FALSE),
                         DetectFormat(f.name), f.content,
                         EncryptFunc(ParserProvider, {}, TRUE, <<Alice>>, 1)).out)

\* a value after EncryptValue to Alice
Marker(plaintext) == EncryptValue(ParserProvider, {}, TRUE, plaintext, <<Alice>>, 1).res.out

\* the documents given to EncryptValues: those of the engine, and the deep ones
PlainDocuments(kind) ==
    IF kind = "yaml" THEN DeepYAMLFiles
    ELSE IF kind = "json" THEN DeepJSONFiles
    ELSE {f \in Files : DetectFormat(f.name) # "unknown"}

\* deep documents given to DecryptValues: a marker in place of the password
DeepEncryptedFiles ==
         {File(T(<<"n", ".", "y", "a", "m", "l">>),
               Doc("yaml", DocumentNode(<<Mapping(
                   <<Str(T(<<"p", "w">>)), Str(Marker(T(<<"s", "3", "c", "!">>))),
                     Str(T(<<"d", "e", "e", "p">>)), NestedSequences(levels, Str(T(<<"x", "1">>)))>>)>>))) :
              levels \in {MaxNestingDepth - 2, MaxNestingDepth + 1}}

\* Parser.EncryptValues(content, encryptFunc) of the parser of the file's format
EncryptValuesCall(f, recipients, nonce, desc) ==
    /\ run.op = "idle"
    /\ desc => DetectFormat(f.name) = "json"
    /\ run' = [NoRun EXCEPT
                   !.op = "EncryptValues", !.filename = f.name, !.content = f.content,
                   !.plain = f.content, !.provider = ParserProvider,
                   !.opts = Options(Empty, ModeValues, recipients),
                   !.res = TransformValues(
                               Runtime(ParserProvider, {}, TRUE, nonce, Empty, LiteralOrder, desc),
                               DetectFormat(f.name), f.content,
                               EncryptFunc(ParserProvider, {}, TRUE, recipients, nonce))]
    /\ UNCHANGED <<defaultProvider, cliKeyring, diskKeyring, call, worktree, store, goroutines>>

\* Parser.DecryptValues(content, decryptFunc) of the parser of the file's format
DecryptValuesCall(f, p, desc) ==
    /\ run.op = "idle"
    /\ desc => DetectFormat(f.name) = "json"
    /\ run' = [NoRun EXCEPT
                   !.op = "DecryptValues", !.filename = f.name, !.content = f.content,
                   !.provider = p, !.opts = Options(Empty, ModeValues, <<Alice>>),
                   !.res = TransformValues(
                               Runtime(p, {}, TRUE, 0, Empty, LiteralOrder, desc),
                               DetectFormat(f.name), f.content, DecryptFunc(p, {}, TRUE))]
    /\ UNCHANGED <<defaultProvider, cliKeyring, diskKeyring, call, worktree, store, goroutines>>

NextParser ==
    \/ \E kind \in {"", "yaml", "json"}, recipients \in EngineRecipients, nonce \in Nonces,
          desc \in BOOLEAN :
           \E f \in PlainDocuments(kind) : EncryptValuesCall(f, recipients, nonce, desc)
    \/ \E deep, desc \in BOOLEAN, es \in TestEntityLists :
           \E f \in (IF deep THEN DeepEncryptedFiles ELSE PlainDocuments("")) :
               DecryptValuesCall(IF deep THEN f ELSE Encrypted(f), NativeProvider(es), desc)
    \/ ReturnFile

SpecParser == InitEngine /\ [][NextParser]_vars

---------------------------------------------------------------------------
(* The command state machine: shhh encrypt and shhh decrypt on a           *)
(* registered file, between edits by the user                              *)

\* the files registered in the project of the model
RegisteredFiles ==
    {f \in Files : f.name \in {T(<<"s", ".", "y", "a", "m", "l">>), T(<<"c", ".", "j", "s", "o", "n">>), T(<<"e", ".", "i", "n", "i">>), T(<<"f", ".", "e", "n", "v">>), T(<<"g", ".", "t", "x", "t">>)}}

\* the recipients of the vault: Alice, or a user without a key
VaultRecipients == {<<Alice>>, <<Carol>>}

\* a marker that no EncryptValue produced
MergedMarker == EncPrefix \o Base64Encode(T(<<"a", "b", "c">>)) \o EncSuffix

\* how often the user edits a file of the worktree by hand
MaxEdits == 1

InitCommand ==
    /\ defaultProvider = NilProvider
    /\ diskKeyring = << >>
    /\ cliKeyring = {Entity(1, TRUE), Entity(2, FALSE)}
    /\ call = Idle
    /\ run = NoRun
    /\ \E f \in RegisteredFiles, mode \in {ModeValues, ModeFull}, gpgCopy \in BOOLEAN :
           worktree = Worktree(f.name, T(<<"d", "e", "v">>), mode, gpgCopy, <<Alice>>, f.content)
    /\ store = NoStore
    /\ goroutines = << >>

\* the record of a command on the registered file
CommandRun(op, content, opts, rt, res) ==
    [NoRun EXCEPT !.op = op, !.filename = worktree.Path, !.content = content,
                  !.opts = opts, !.res = res, !.provider = rt.p, !.ck = rt.ck,
                  !.up = rt.up]

\* encryptFile of cmd/encrypt.go
EncryptFileCommand(rt) ==
    LET opts == Options(worktree.Vault, worktree.Mode, worktree.recipients)
        Copied(e) ==
            IF worktree.GPGCopy /\ e.res.err = "nil" THEN Doc("bytes", e.res.out)
            ELSE worktree.gpg
        Written(res) ==
            /\ run' = CommandRun("encryptFile", worktree.plain, opts, rt, res)
            /\ worktree' =
                   IF res.err # "nil" THEN worktree
                   ELSE [worktree EXCEPT
                             !.enc = res.out,
                             !.gpg = Copied(ProviderEncrypt(rt.p, rt.ck, rt.up,
                                                            Bytes(worktree.plain),
                                                            worktree.recipients, rt.nonce))]
    IN  /\ run.op = "idle"
        /\ Used(rt, worktree.Path, worktree.Mode)
        /\ Written(IF worktree.plain = NoFile THEN Pass(NoContent, << >>, "SourceMissing")
                   ELSE IF worktree.recipients = << >>
                   THEN Pass(NoContent, << >>, "NoRecipientsAvailable")
                   ELSE EncryptFileContent(rt, worktree.plain, worktree.Path, opts))
        /\ defaultProvider' = IF UsedProvider(run'.res) THEN rt.p ELSE defaultProvider
        /\ UNCHANGED <<cliKeyring, diskKeyring, call, store, goroutines>>

\* decryptFile of cmd/decrypt.go; overwrite is --force, or the answer "y" to
\* the question whether to overwrite an existing plaintext file
DecryptFileCommand(overwrite, rt) ==
    LET opts == Options(worktree.Vault, worktree.Mode, worktree.recipients)
        Decrypted(res) ==
            /\ run' = CommandRun("decryptFile", worktree.enc, opts, rt, res)
            /\ worktree' = IF res.err # "nil" THEN worktree
                           ELSE [worktree EXCEPT !.plain = res.out]
    IN  /\ run.op = "idle"
        /\ Used(rt, worktree.Path, worktree.Mode)
        /\ overwrite => worktree.plain # NoFile
        /\ Decrypted(IF worktree.enc = NoFile THEN Pass(NoContent, << >>, "EncryptedMissing")
                     ELSE IF worktree.plain # NoFile /\ ~overwrite
                     THEN Pass(NoContent, << >>, "Skipped")
                     ELSE DecryptFileContent(rt, worktree.enc, worktree.Path))
        /\ defaultProvider' = IF UsedProvider(run'.res) THEN rt.p ELSE defaultProvider
        /\ UNCHANGED <<cliKeyring, diskKeyring, call, store, goroutines>>

\* the user adds an entry to the plaintext file
EditPlain(e) ==
    /\ run.op = "idle"
    /\ worktree.edits < MaxEdits
    /\ worktree.plain # NoFile
    /\ worktree' = [worktree EXCEPT !.plain = AddEntry(worktree.plain, e),
                                    !.edits = worktree.edits + 1]
    /\ UNCHANGED <<defaultProvider, cliKeyring, diskKeyring, call, run, store, goroutines>>

\* the user removes the plaintext file
RemovePlain ==
    /\ run.op = "idle"
    /\ worktree.plain # NoFile
    /\ worktree.enc # NoFile
    /\ worktree' = [worktree EXCEPT !.plain = NoFile]
    /\ UNCHANGED <<defaultProvider, cliKeyring, diskKeyring, call, run, store, goroutines>>

\* an entry with a marker that no EncryptValue produced comes into the
\* encrypted file of a values-mode file, by hand or by a merge
EditEncrypted(m) ==
    /\ run.op = "idle"
    /\ worktree.edits < MaxEdits
    /\ worktree.enc # NoFile
    /\ worktree.Mode = ModeValues
    /\ DetectFormat(worktree.Path) # "unknown"
    /\ worktree' = [worktree EXCEPT
                        !.enc = AddEntry(worktree.enc, [k |-> T(<<"e", "x", "t", "r", "a">>), v |-> m, t |-> "str"]),
                        !.edits = worktree.edits + 1]
    /\ UNCHANGED <<defaultProvider, cliKeyring, diskKeyring, call, run, store, goroutines>>

\* the users of the vault change
SetRecipients(recipients) ==
    /\ run.op = "idle"
    /\ worktree.recipients # recipients
    /\ worktree' = [worktree EXCEPT !.recipients = recipients]
    /\ UNCHANGED <<defaultProvider, cliKeyring, diskKeyring, call, run, store, goroutines>>

\* the command returns
ReturnCommand ==
    /\ run.op # "idle"
    /\ run' = NoRun
    /\ UNCHANGED <<defaultProvider, cliKeyring, diskKeyring, call, worktree, store, goroutines>>

NextCommand ==
    \/ \E up, desc \in BOOLEAN, nonce \in Nonces, now \in Times :
           EncryptFileCommand(Here(up, nonce, now, LiteralOrder, desc))
    \/ \E overwrite, up, desc \in BOOLEAN :
           DecryptFileCommand(overwrite, Here(up, 0, Empty, LiteralOrder, desc))
    \/ \E e \in NewEntries : EditPlain(e)
    \/ RemovePlain
    \/ EditEncrypted(MergedMarker)
    \/ \E recipients \in VaultRecipients : SetRecipients(recipients)
    \/ \E nonce \in Nonces, desc \in BOOLEAN :
           /\ DetectFormat(worktree.Path) # "unknown"
           /\ Readable(worktree.plain, DetectFormat(worktree.Path))
           /\ EncryptValuesCall(File(worktree.Path, worktree.plain), worktree.recipients,
                                nonce, desc)
    \/ \E desc \in BOOLEAN :
           /\ DetectFormat(worktree.Path) # "unknown"
           /\ Readable(worktree.enc, DetectFormat(worktree.Path))
           /\ DecryptValuesCall(File(worktree.Path, worktree.enc),
                                GetProvider(defaultProvider, diskKeyring), desc)
    \/ ReturnCommand

SpecCommand == InitCommand /\ [][NextCommand]_vars

---------------------------------------------------------------------------
(* The metadata state machine: a metadata block is attached to a document, *)
(* read, attached again and stripped                                       *)

\* documents without a metadata block: of every format, with roots that are
\* no mapping and no object, with object keys out of order, with a blank line
\* at the end and without a newline at the end
MetadataFiles ==
    << File(T(<<"s", ".", "y", "a", "m", "l">>), StructureYAML),
       File(T(<<"r", ".", "y", "a", "m", "l">>), Doc("yaml", DocumentNode(<<SequenceNode(<<Str(T(<<"x", "1">>))>>)>>))),
       File(T(<<"d", ".", "j", "s", "o", "n">>), PlainJSON),
       File(T(<<"c", ".", "j", "s", "o", "n">>), NestedJSON),
       File(T(<<"a", ".", "j", "s", "o", "n">>), Doc("json", JArr(<<JStr(T(<<"x", "1">>))>>))),
       File(T(<<"e", ".", "i", "n", "i">>), PlainINI),
       File(T(<<"f", ".", "e", "n", "v">>), PlainENV),
       File(T(<<"b", ".", "e", "n", "v">>), Doc("bytes", (T(<<"A", "P", "I", "=", "s", "3", "c", "!">>) \o <<Ch.nl>> \o <<Ch.nl>>))),
       File(T(<<"n", ".", "e", "n", "v">>), Doc("bytes", T(<<"A", "P", "I", "=", "s", "3", "c", "!">>))) >>

\* vault names: those of the engine, and one that reads as a number
MetadataVaults == Vaults \cup {T(<<"0", "0", "7">>)}

\* the options whose metadata is attached
MetadataOptions ==
    {Options(v, ModeValues, r) : v \in MetadataVaults, r \in {<<Alice>>, <<Bob, Alice>>}}

\* the metadata of the options is attached to a document, as encryptValuesFile
\* attaches it
AddMetadataCall(f, opts, now, order) ==
    /\ run.op = "idle"
    /\ run' = [NoRun EXCEPT
                   !.op = "AddMetadata", !.filename = f.name, !.content = f.content,
                   !.plain = f.content, !.opts = opts,
                   !.res = AttachMetadata(Runtime(NilProvider, {}, TRUE, 0, now, order, FALSE),
                                          DetectFormat(f.name), f.content, opts)]
    /\ UNCHANGED <<defaultProvider, cliKeyring, diskKeyring, call, worktree, store, goroutines>>

\* the metadata is stripped from the document it was attached to, as
\* decryptValuesFile strips it
RemoveMetadataCall ==
    /\ run.op = "AddMetadata"
    /\ run.res.err = "nil"
    /\ run' = [run EXCEPT !.op = "RemoveMetadata", !.content = run.res.out,
                          !.res = StripMetadata(DetectFormat(run.filename), run.res.out)]
    /\ UNCHANGED <<defaultProvider, cliKeyring, diskKeyring, call, worktree, store, goroutines>>

\* a file of a format GetParser knows none for
UnknownFile == File(T(<<"g", ".", "t", "x", "t">>), TextBytes)

\* crypto.GetFileMetadata(content, filename) on what EncryptFileContent returned
GetFileMetadataCall ==
    /\ run.op = "EncryptFileContent"
    /\ run.res.err = "nil"
    /\ run' = [run EXCEPT !.op = "GetFileMetadata", !.content = run.res.out,
                          !.res = GetFileMetadata(run.res.out, run.filename)]
    /\ UNCHANGED <<defaultProvider, cliKeyring, diskKeyring, call, worktree, store, goroutines>>

\* the metadata of other options is attached to a document that carries a
\* metadata block already; again says that the second attachment is that of
\* the metadata attached first
AddMetadataAgain(opts, now, order) ==
    LET rt == Runtime(NilProvider, {}, TRUE, 0, now, order, FALSE)
        format == DetectFormat(run.filename)
    IN  /\ run.op = "AddMetadata"
        /\ run.res.err = "nil"
        /\ run' = [run EXCEPT
                       !.op = "AddMetadataAgain", !.content = run.res.out, !.opts = opts,
                       !.res = AttachMetadata(rt, format, run.res.out, opts),
                       !.again = (AttachMetadata(rt, format, run.plain, opts) = run.res)]
        /\ UNCHANGED <<defaultProvider, cliKeyring, diskKeyring, call, worktree, store, goroutines>>

\* a file encrypted in values mode is encrypted again as it is, with other
\* options
EncryptEncrypted(opts, rt) ==
    /\ run.op = "EncryptFileContent"
    /\ ~run.again
    /\ run.res.err = "nil"
    /\ run.opts.Mode = ModeValues
    /\ DetectFormat(run.filename) # "unknown"
    /\ EncryptCall(run.filename, run.res.out, opts, run.plain, TRUE, rt)

NextMetadata ==
    \/ \E i \in DOMAIN MetadataFiles, opts \in MetadataOptions, now \in Times,
          order \in MetadataOrders :
           AddMetadataCall(MetadataFiles[i], opts, now, order)
    \/ RemoveMetadataCall
    \/ \E i \in DOMAIN MetadataFiles, unknown \in BOOLEAN, opts \in MetadataOptions,
          mode \in {ModeValues, ModeFull}, nonce \in Nonces, now \in Times,
          order \in MetadataOrders :
           EncryptFile(IF unknown THEN UnknownFile ELSE MetadataFiles[i],
                       [opts EXCEPT !.Mode = mode],
                       Here(TRUE, nonce, now, order, FALSE))
    \/ GetFileMetadataCall
    \/ \E opts \in MetadataOptions, now \in Times, order \in MetadataOrders :
           AddMetadataAgain(opts, now, order)
    \/ \E opts \in MetadataOptions, nonce \in Nonces, now \in Times, order \in MetadataOrders :
           EncryptEncrypted(opts, Here(TRUE, nonce, now, order, FALSE))
    \/ ReturnFile

SpecMetadata == InitEngine /\ [][NextMetadata]_vars

---------------------------------------------------------------------------
(* The detection state machine: files of every content under names of every *)
(* extension are detected, encrypted, and decrypted under another name     *)

\* file names: every extension DetectFormat knows, in lower and upper case,
\* extensions it does not know, no extension, a dot in the directory only,
\* and nothing before the extension
DetectNames ==
    { T(<<"t", "e", "s", "t", ".", "y", "a", "m", "l">>), T(<<"T", ".", "Y", "M", "L">>), T(<<"t", "e", "s", "t", ".", "j", "s", "o", "n">>), T(<<"d", ".", "J", "S", "O", "N">>), T(<<"t", "e", "s", "t", ".", "i", "n", "i">>), T(<<"t", "e", "s", "t", ".", "c", "f", "g">>),
      T(<<"a", "p", "p", ".", "C", "o", "n", "f">>), T(<<"t", "e", "s", "t", ".", "e", "n", "v">>), T(<<".", "e", "n", "v">>), T(<<"t", "e", "s", "t", ".", "t", "x", "t">>), T(<<"t", "e", "s", "t">>), T(<<"a", ".", "y", "a", "m", "l", "/", "b">>),
      T(<<"s", ".", "y", "a", "m", "l", ".", "e", "n", "c">>), T(<<"x", ".", "j", "s", "o", "n", ".", "b", "a", "k">>) }

\* contents: a document of every format, and text
DetectContents == <<StructureYAML, PlainJSON, PlainINI, PlainENV, TextBytes>>

DetectOptions == {Options(T(<<"d", "e", "v">>), m, <<Alice>>) : m \in {ModeValues, ModeFull}}

\* parser.DetectFormat(filename), called for a file
DetectFormatCall(f) ==
    /\ run.op = "idle"
    /\ run' = [NoRun EXCEPT !.op = "DetectFormat", !.filename = f.name, !.content = f.content,
                            !.res = Pass(DetectFormat(f.name), << >>, "nil")]
    /\ UNCHANGED <<defaultProvider, cliKeyring, diskKeyring, call, worktree, store, goroutines>>

\* crypto.DecryptFileContent(content, filename) of what the encryption
\* returned, under a name that need not be that of the encryption
DecryptRenamed(filename, up) ==
    LET rt == Here(up, 0, Empty, LiteralOrder, FALSE)
    IN  /\ run.op = "EncryptFileContent"
        /\ run.res.err = "nil"
        /\ \/ IsFullyEncrypted(Bytes(run.res.out))
           \/ DetectFormat(filename) = "unknown"
           \/ Readable(run.res.out, DetectFormat(filename))
        /\ ~rt.up => rt.p.kind = "fallback"
        /\ run' = [run EXCEPT !.op = "DecryptFileContent", !.filename = filename,
                              !.content = run.res.out,
                              !.res = DecryptFileContent(rt, run.res.out, filename),
                              !.provider = rt.p, !.ck = rt.ck, !.up = rt.up]
        /\ defaultProvider' = IF UsedProvider(run'.res) THEN rt.p ELSE defaultProvider
        /\ UNCHANGED <<cliKeyring, diskKeyring, call, worktree, store, goroutines>>

NextDetect ==
    \/ \E name \in DetectNames, i \in DOMAIN DetectContents :
           DetectFormatCall(File(name, DetectContents[i]))
    \/ \E name \in DetectNames, i \in DOMAIN DetectContents, opts \in DetectOptions,
          nonce \in Nonces, now \in Times :
           EncryptFile(File(name, DetectContents[i]), opts,
                       Here(TRUE, nonce, now, LiteralOrder, FALSE))
    \/ \E name \in DetectNames, up \in BOOLEAN : DecryptRenamed(name, up)
    \/ ReturnFile

SpecDetect == InitEngine /\ [][NextDetect]_vars

---------------------------------------------------------------------------
(* The reserved-key state machine: EncryptValues and DecryptValues on       *)
(* documents that carry a metadata block                                   *)

\* what the metadata blocks of the model hold: a value EncryptValues would
\* encrypt, and one DecryptValues would decrypt
ReservedEntries ==
    << [k |-> T(<<"n", "o", "t", "e">>), v |-> T(<<"t", "o", "p", "1">>)],
       [k |-> T(<<"t", "o", "k", "e", "n">>), v |-> Marker(T(<<"h", "i", "d", "1">>))] >>

\* the metadata encryptValuesFile attaches for a vault "dev" with Alice
EngineMetadata ==
    Metadata(Options(T(<<"d", "e", "v">>), ModeValues, <<Alice>>), T(<<"2", "0", "2", "6", "-", "0", "1", "-", "0", "2", "T", "0", "3", ":", "0", "4", ":", "0", "5", "Z">>))

\* a YAML document with the reserved key below the root
InnerYAML ==
    Doc("yaml", DocumentNode(<<Mapping(
        <<Str(T(<<"d", "b">>)),
          Mapping(<<Str(ShhhKey), Mapping(<<Str(T(<<"n", "o", "t", "e">>)), Str(T(<<"t", "o", "p", "1">>))>>),
                    Str(T(<<"p", "w">>)), Str(T(<<"s", "3", "c", "!">>))>>)>>)>>))

\* a JSON document with the reserved key below the root
InnerJSON ==
    Doc("json", JObj(<<[k |-> T(<<"d", "b">>),
                        v |-> JObj(<<[k |-> ShhhKey, v |-> JObj(<<[k |-> T(<<"n", "o", "t", "e">>), v |-> JStr(T(<<"t", "o", "p", "1">>))]>>)],
                                     [k |-> T(<<"p", "w">>), v |-> JStr(T(<<"s", "3", "c", "!">>))]>>)]>>))

\* a YAML document whose metadata block has an anchor, and an alias of it
\* under another key:
\*   _shhh: &m
\*     note: top1
\*   copy: *m
AliasYAML ==
    LET block == Mapping(<<Str(T(<<"n", "o", "t", "e">>)), Str(T(<<"t", "o", "p", "1">>))>>)
    IN  Doc("yaml", DocumentNode(<<Mapping(
            <<Str(ShhhKey), AnchoredNode(T(<<"m">>), block),
              Str(T(<<"c", "o", "p", "y">>)), AliasNode(T(<<"m">>), block)>>)>>))

\* documents with a metadata block: of every format, as the Add functions
\* write the block, the reserved key below the root, and an alias of the block
ReservedFiles ==
    << File(T(<<"s", ".", "y", "a", "m", "l">>), Doc("yaml", AddShhhMetadata(StructureYAML.v, ReservedEntries))),
       File(T(<<"c", ".", "j", "s", "o", "n">>), Doc("json", AddJSONMetadata(PlainJSON.v, ReservedEntries).out)),
       File(T(<<"e", ".", "i", "n", "i">>), Doc("ini", AddINIMetadata(PlainINI.v, ReservedEntries))),
       File(T(<<"f", ".", "e", "n", "v">>), Doc("bytes", AddENVMetadata(PlainENV.v, ReservedEntries))),
       File(T(<<"i", ".", "y", "a", "m", "l">>), InnerYAML),
       File(T(<<"i", ".", "j", "s", "o", "n">>), InnerJSON),
       File(T(<<"a", ".", "y", "a", "m", "l">>), AliasYAML),
       File(T(<<"t", ".", "y", "m", "l">>), Doc("yaml", AddShhhMetadata(TypedYAML.v, EngineMetadata))),
       File(T(<<"n", ".", "j", "s", "o", "n">>), Doc("json", AddJSONMetadata(NestedJSON.v, EngineMetadata).out)),
       File(T(<<"e", ".", "c", "f", "g">>), Doc("ini", AddINIMetadata(PlainINI.v, EngineMetadata))),
       File(T(<<"q", ".", "e", "n", "v">>), Doc("bytes", AddENVMetadata(QuotedENV.v, EngineMetadata))) >>

\* Parser.DecryptValues on what EncryptValues returned
DecryptValuesBack(p, desc) ==
    /\ run.op = "EncryptValues"
    /\ run.res.err = "nil"
    /\ desc => DetectFormat(run.filename) = "json"
    /\ run' = [run EXCEPT
                   !.op = "DecryptValues", !.content = run.res.out, !.provider = p,
                   !.res = TransformValues(
                               Runtime(p, {}, TRUE, 0, Empty, LiteralOrder, desc),
                               DetectFormat(run.filename), run.res.out, DecryptFunc(p, {}, TRUE))]
    /\ UNCHANGED <<defaultProvider, cliKeyring, diskKeyring, call, worktree, store, goroutines>>

NextReserved ==
    \/ \E i \in DOMAIN ReservedFiles, recipients \in EngineRecipients, nonce \in Nonces,
          desc \in BOOLEAN :
           EncryptValuesCall(ReservedFiles[i], recipients, nonce, desc)
    \/ \E i \in DOMAIN ReservedFiles, es \in TestEntityLists, desc \in BOOLEAN :
           DecryptValuesCall(ReservedFiles[i], NativeProvider(es), desc)
    \/ \E es \in TestEntityLists, desc \in BOOLEAN : DecryptValuesBack(NativeProvider(es), desc)
    \/ ReturnFile

SpecReserved == InitEngine /\ [][NextReserved]_vars

---------------------------------------------------------------------------
(* The recipients state machine: values and files are encrypted to lists   *)
(* of recipients, the empty list among them                                *)

\* documents in which EncryptValues finds nothing to encrypt: a YAML mapping
\* of an empty string, a JSON object of a number, an INI key without a value,
\* an ENV file of a comment; and documents in which it finds a value
RecipientFiles ==
    << File(T(<<"v", ".", "y", "a", "m", "l">>), Doc("yaml", DocumentNode(<<Mapping(<<Str(T(<<"n", "a", "m", "e">>)), Scalar("!!str", "dq", Empty)>>)>>))),
       File(T(<<"v", ".", "j", "s", "o", "n">>), Doc("json", JObj(<<[k |-> T(<<"p", "o", "r", "t">>), v |-> JNum(T(<<"5", "4", "3", "2">>))]>>))),
       File(T(<<"v", ".", "i", "n", "i">>), Doc("ini", <<INISection(T(<<"d", "b">>), <<[k |-> T(<<"p", "a", "s", "s", "w", "o", "r", "d">>), v |-> Empty]>>)>>)),
       File(T(<<"v", ".", "e", "n", "v">>), Doc("bytes", ((T(<<"#">>) \o <<Ch.sp>> \o T(<<"n", "o", "t", "h", "i", "n", "g">>)) \o <<Ch.nl>>))),
       File(T(<<"s", ".", "y", "a", "m", "l">>), StructureYAML),
       File(T(<<"d", ".", "j", "s", "o", "n">>), PlainJSON),
       File(T(<<"e", ".", "i", "n", "i">>), PlainINI),
       File(T(<<"f", ".", "e", "n", "v">>), PlainENV),
       File(T(<<"g", ".", "t", "x", "t">>), TextBytes) >>

\* the options of the encryptions: to nobody, and to Alice
RecipientOptions ==
    {Options(T(<<"d", "e", "v">>), m, r) : m \in {ModeValues, ModeFull}, r \in {<< >>, <<Alice>>}}

NextRecipients ==
    \/ SetProvider(NilProvider)
    \/ \E es \in TestEntityLists : SetProvider(NativeProvider(diskKeyring \o es))
    \/ \E pt \in Plaintexts, rs \in {<< >>, <<Alice>>}, n \in Nonces, up \in BOOLEAN :
           EncryptValueCall(pt, rs, n, up)
    \/ Return
    \/ \E i \in DOMAIN RecipientFiles, opts \in RecipientOptions, up \in BOOLEAN,
          nonce \in Nonces, now \in Times :
           EncryptFile(RecipientFiles[i], opts, Here(up, nonce, now, LiteralOrder, FALSE))
    \/ \E up \in BOOLEAN, nonce \in Nonces, now \in Times :
           EncryptEncrypted(Options(T(<<"d", "e", "v">>), ModeValues, << >>),
                            Here(up, nonce, now, LiteralOrder, FALSE))
    \/ ReturnFile

SpecRecipients == InitEngine /\ [][NextRecipients]_vars

---------------------------------------------------------------------------
(* The store state machine: Initialize, CreateVault and RemoveVault *)

\* the store after an operation on a vault
AfterStore(op, vault, r) ==
    /\ store' = StoreCall(op, vault, Empty, << >>, r.err, << >>, store.disk, r.disk)
    /\ UNCHANGED <<defaultProvider, cliKeyring, diskKeyring, call, run, worktree, goroutines>>

Initialize == AfterStore("Initialize", Empty, StoreInitialize(store.disk))

CreateVault(name) ==
    /\ IsInitialized(store.disk)
    /\ AfterStore("CreateVault", name, StoreCreateVault(store.disk, name))

RemoveVault(name) ==
    /\ IsInitialized(store.disk)
    /\ AfterStore("RemoveVault", name, StoreRemoveVault(store.disk, name))

\* the vault names of the model: valid ones, the ones validateName refuses,
\* and names that filepath.Join cleans to another path
VaultNames ==
    {DefaultVault, T(<<"d", "e", "v">>), T(<<"p", "r", "o", "d">>), Empty, T(<<".">>), T(<<".", ".">>), T(<<"a", "/", "b">>), (T(<<"a">>) \o <<Ch.bs>> \o T(<<"b">>)),
     T(<<"d", "e", "f", "a", "u", "l", "t", "/">>), T(<<"d", "e", "v", "/", ".", ".">>)}

NextStore ==
    \/ Initialize
    \/ \E name \in VaultNames : CreateVault(name)
    \/ \E name \in VaultNames : RemoveVault(name)

SpecStore == InitEngine /\ [][NextStore]_vars

---------------------------------------------------------------------------
(* The registry of a vault: its users and its registered files,            *)
(* internal/config                                                         *)

\* a Go []string: the nil slice, or a slice with elements (maybe none);
\* files.json keeps the two apart, as null and as an array
Slice(elems) == [isNil |-> FALSE, elems |-> elems]
NilSlice == [isNil |-> TRUE, elems |-> << >>]

\* config.User: the e-mail address and the key LookupKey found for it
User(email, key) == [Email |-> email, KeyID |-> key]

\* config.RegisteredFile
RegisteredFile(path, mode, recipients) ==
    [Path |-> path, Mode |-> mode, GPGCopy |-> FALSE, Recipients |-> recipients]

\* the function f with the value v at x
Put(f, x, v) == [y \in DOMAIN f \cup {x} |-> IF y = x THEN v ELSE f[y]]

\* os.ReadFile(p) fails with an error that is not IsNotExist
Unreadable(disk, p) ==
    p \in disk.dirs \/ \E i \in 0..(Len(p) - 1) : SubSeq(p, 1, i) \in RegularFiles(disk)

\* LoadVaultUsers: the users of users.json; none when the file does not exist
LoadVaultUsers(disk, vault) ==
    IF VaultUsersPath(vault) \in DOMAIN disk.users THEN disk.users[VaultUsersPath(vault)]
    ELSE << >>

\* LoadVaultFiles: the files of files.json; none when the file does not exist
LoadVaultFiles(disk, vault) ==
    IF VaultFilesPath(vault) \in DOMAIN disk.files THEN disk.files[VaultFilesPath(vault)]
    ELSE << >>

\* store.WriteFile(p, data) can succeed
CanWriteFile(disk, p) ==
    /\ p # << >>
    /\ CanMkdirAll(disk, SubSeq(p, 1, Len(p) - 1))
    /\ p \notin disk.dirs

\* VaultUsers.Save
SaveUsers(disk, vault, users) ==
    LET p == VaultUsersPath(vault)
    IN  IF ~CanWriteFile(disk, p) THEN Stored("WriteFailed", disk)
        ELSE Stored("nil", [MkdirAll(disk, SubSeq(p, 1, Len(p) - 1)) EXCEPT
                                !.users = Put(disk.users, p, users)])

\* VaultFiles.Save
SaveFiles(disk, vault, files) ==
    LET p == VaultFilesPath(vault)
    IN  IF ~CanWriteFile(disk, p) THEN Stored("WriteFailed", disk)
        ELSE Stored("nil", [MkdirAll(disk, SubSeq(p, 1, Len(p) - 1)) EXCEPT
                                !.files = Put(disk.files, p, files)])

\* VaultUsers.HasUser
HasUser(users, email) == \E i \in 1..Len(users) : users[i].Email = email

\* VaultUsers.Emails
UserEmails(users) == [i \in 1..Len(users) |-> users[i].Email]

\* VaultUsers.Add: the user takes the place of the one with its e-mail
\* address, or comes last
UsersAdd(users, user) ==
    IF HasUser(users, user.Email)
    THEN LET i == CHOOSE k \in 1..Len(users) :
                      users[k].Email = user.Email /\ \A j \in 1..(k - 1) : users[j].Email # user.Email
         IN  [users EXCEPT ![i] = user]
    ELSE Append(users, user)

\* VaultUsers.Remove: without the first user of this e-mail address
UsersRemove(users, email) ==
    LET i == CHOOSE k \in 1..Len(users) :
                 users[k].Email = email /\ \A j \in 1..(k - 1) : users[j].Email # email
    IN  SubSeq(users, 1, i - 1) \o SubSeq(users, i + 1, Len(users))

\* the index of the first file with this path; 0 when there is none
FileIndex(files, path) ==
    IF \E i \in 1..Len(files) : files[i].Path = path
    THEN CHOOSE i \in 1..Len(files) :
             files[i].Path = path /\ \A j \in 1..(i - 1) : files[j].Path # path
    ELSE 0

\* VaultFiles.Register
FilesRegister(files, file) ==
    IF FileIndex(files, file.Path) # 0 THEN [files EXCEPT ![FileIndex(files, file.Path)] = file]
    ELSE Append(files, file)

\* the character classes of the pattern of ValidateEmail
IsAlnum(c) == (c >= 48 /\ c <= 57) \/ (c >= 65 /\ c <= 90) \/ (c >= 97 /\ c <= 122)
IsAlpha(c) == (c >= 65 /\ c <= 90) \/ (c >= 97 /\ c <= 122)

\* ValidateEmail: the address matches
\* ^[a-zA-Z0-9._%+\-]+@[a-zA-Z0-9.\-]+\.[a-zA-Z]{2,}$ and mail.ParseAddress
\* takes it (a local part of dot-separated atoms, a domain likewise)
ValidateEmail(email) ==
    LET at == IndexByte(email, Ord["@"])
        local == SubSeq(email, 1, at - 1)
        domain == SubSeq(email, at + 1, Len(email))
        dot == LastIndexByte(domain, Ord["."])
        Atoms(s) == \A a \in {Split(s, Ord["."])[i] : i \in 1..Len(Split(s, Ord["."]))} : a # Empty
    IN  /\ at > 1
        /\ \A i \in 1..Len(local) :
               IsAlnum(local[i]) \/ local[i] \in {Ord["."], Ord["_"], Ord["%"], Ord["+"], Ord["-"]}
        /\ dot > 1
        /\ Len(domain) - dot >= 2
        /\ \A i \in (dot + 1)..Len(domain) : IsAlpha(domain[i])
        /\ \A i \in 1..(dot - 1) : IsAlnum(domain[i]) \/ domain[i] \in {Ord["."], Ord["-"]}
        /\ Atoms(local)
        /\ Atoms(domain)
        /\ Len(email) <= 254

\* store.PubkeyPath
PubkeyPath(email) == JoinPath(PubkeysPath, email \o T(<<".", "a", "s", "c">>))

\* config.AddUser, with the provider p; the keys of the model do not expire
ConfigAddUser(disk, p, ck, up, ser, vault, email) ==
    LET keyInfo == ProviderLookupKey(p, ck, up, ser, email).res
        pubKey == ProviderGetPublicKey(p, ck, up, ser, email).res
        Cached(d) ==
            IF ~CanWriteFile(d, PubkeyPath(email)) THEN Stored("CacheFailed", disk)
            ELSE IF Unreadable(d, VaultUsersPath(vault)) THEN Stored("LoadFailed", d)
            ELSE SaveUsers(d, vault,
                           UsersAdd(LoadVaultUsers(d, vault), User(email, keyInfo.key.key)))
    IN  IF ~ValidateEmail(email) THEN Stored("InvalidEmail", disk)
        ELSE IF keyInfo.err # "nil" THEN Stored("KeyNotFound", disk)
        ELSE IF pubKey.err # "nil" THEN Stored("ExportFailed", disk)
        ELSE Cached([MkdirAll(disk, PubkeysPath) EXCEPT
                         !.pubkeys = Put(disk.pubkeys, PubkeyPath(email), pubKey.out)])

\* config.RemoveUser
ConfigRemoveUser(disk, vault, email) ==
    IF Unreadable(disk, VaultUsersPath(vault)) THEN Stored("LoadFailed", disk)
    ELSE IF ~HasUser(LoadVaultUsers(disk, vault), email) THEN Stored("UserNotFound", disk)
    ELSE SaveUsers(disk, vault, UsersRemove(LoadVaultUsers(disk, vault), email))

\* filepath.Clean of a path text
Clean(path) ==
    LET rooted == path # Empty /\ path[1] = Ord["/"]
        elems == CleanElements(<< >>, Split(path, Ord["/"]), rooted)
    IN  IF rooted THEN T(<<"/">>) \o Join(elems, T(<<"/">>))
        ELSE IF elems = << >> THEN T(<<".">>)
        ELSE Join(elems, T(<<"/">>))

\* ValidateFilePath
ValidateFilePath(path) ==
    IF path = Empty THEN "EmptyPath"
    ELSE IF HasPrefix(Clean(path), T(<<"/">>)) THEN "AbsolutePath"
    ELSE IF HasPrefix(Clean(path), T(<<".", ".">>)) THEN "ParentPath"
    ELSE IF Contains(Clean(path), ShhhDir) THEN "InsideShhh"
    ELSE "nil"

\* some recipient is no user
NotAllUsers(users, recipients) ==
    \E i \in 1..Len(recipients.elems) : ~HasUser(users, recipients.elems[i])

\* config.RegisterFile
ConfigRegisterFile(disk, vault, path, mode, recipients) ==
    IF ValidateFilePath(path) # "nil" THEN Stored("InvalidPath", disk)
    ELSE IF mode \notin {ModeValues, ModeFull} THEN Stored("InvalidMode", disk)
    ELSE IF Unreadable(disk, VaultUsersPath(vault)) \/ Unreadable(disk, VaultFilesPath(vault))
    THEN Stored("LoadFailed", disk)
    ELSE IF NotAllUsers(LoadVaultUsers(disk, vault), recipients)
    THEN Stored("RecipientNotUser", disk)
    ELSE SaveFiles(disk, vault,
                   FilesRegister(LoadVaultFiles(disk, vault),
                                 RegisteredFile(path, mode, recipients)))

\* VaultFiles.Update with the new recipients, then VaultFiles.Save
UpdateRecipients(disk, vault, path, New(_)) ==
    LET files == LoadVaultFiles(disk, vault)
        i == FileIndex(files, path)
    IN  IF i = 0 THEN Stored("FileNotRegistered", disk)
        ELSE SaveFiles(disk, vault, [files EXCEPT ![i].Recipients = New(@)])

\* config.SetFileRecipients
ConfigSetFileRecipients(disk, vault, path, recipients) ==
    IF Unreadable(disk, VaultUsersPath(vault)) \/ Unreadable(disk, VaultFilesPath(vault))
    THEN Stored("LoadFailed", disk)
    ELSE IF NotAllUsers(LoadVaultUsers(disk, vault), recipients)
    THEN Stored("RecipientNotUser", disk)
    ELSE UpdateRecipients(disk, vault, path, LAMBDA old : recipients)

\* config.ClearFileRecipients
ConfigClearFileRecipients(disk, vault, path) ==
    IF Unreadable(disk, VaultFilesPath(vault)) THEN Stored("LoadFailed", disk)
    ELSE UpdateRecipients(disk, vault, path, LAMBDA old : NilSlice)

RECURSIVE AppendMissing(_, _)
\* the loop of AddFileRecipients: every recipient not yet in the list is
\* appended to it
AppendMissing(list, recipients) ==
    IF recipients = << >> THEN list
    ELSE AppendMissing(IF \E i \in 1..Len(list) : list[i] = Head(recipients) THEN list
                       ELSE Append(list, Head(recipients)),
                       Tail(recipients))

\* config.AddFileRecipients; append to a nil slice leaves it nil when
\* nothing is appended
ConfigAddFileRecipients(disk, vault, path, recipients) ==
    IF Unreadable(disk, VaultUsersPath(vault)) \/ Unreadable(disk, VaultFilesPath(vault))
    THEN Stored("LoadFailed", disk)
    ELSE IF NotAllUsers(LoadVaultUsers(disk, vault), recipients)
    THEN Stored("RecipientNotUser", disk)
    ELSE UpdateRecipients(disk, vault, path,
                          LAMBDA old : IF old.isNil /\ recipients.elems = << >> THEN NilSlice
                                       ELSE Slice(AppendMissing(old.elems, recipients.elems)))

\* config.RemoveFileRecipients: the list is made anew, without the
\* recipients given
ConfigRemoveFileRecipients(disk, vault, path, recipients) ==
    IF Unreadable(disk, VaultFilesPath(vault)) THEN Stored("LoadFailed", disk)
    ELSE UpdateRecipients(disk, vault, path,
                          LAMBDA old :
                              Slice(SelectSeq(old.elems,
                                              LAMBDA e : \A i \in 1..Len(recipients.elems) :
                                                             recipients.elems[i] # e)))

\* GetEffectiveRecipients as it would be if it asked whether the file has a
\* recipient list at all
GetEffectiveRecipients_NotNil(disk, vault, file) ==
    IF ~file.Recipients.isNil THEN file.Recipients.elems
    ELSE UserEmails(LoadVaultUsers(disk, vault))

\* config.GetEffectiveRecipients
GetEffectiveRecipients(disk, vault, file) ==
    IF Len(file.Recipients.elems) > 0 THEN file.Recipients.elems
    ELSE UserEmails(LoadVaultUsers(disk, vault))

---------------------------------------------------------------------------
(* The registry state machine: users and registered files of a vault, and  *)
(* the per-file recipient lists                                            *)

\* the vaults, the file paths and the recipient arguments of the model
RegistryVaults == {DefaultVault}
RegistryPaths == {T(<<"s", ".", "y", "a", "m", "l">>)}
RejectedPaths == {Empty, T(<<".", ".", "/", "x">>), T(<<".", "s", "h", "h", "h", "/", "k">>), T(<<"/", "e", "t", "c", "/", "x">>)}
RegistryEmails == {Alice, Bob}
RecipientSlices == {NilSlice} \cup {Slice(l) : l \in ListsUpTo(RegistryEmails, MaxRecipients)}

\* the store after a registry operation
AfterRegistry(op, vault, path, rcpts, out, r) ==
    /\ IsInitialized(store.disk)
    /\ store' = StoreCall(op, vault, path, rcpts, r.err, out, store.disk, r.disk)
    /\ UNCHANGED <<cliKeyring, diskKeyring, call, run, worktree, goroutines>>

AddUser(vault, email, up, ser) ==
    LET p == GetProvider(defaultProvider, diskKeyring)
    IN  /\ defaultProvider' = p
        /\ AfterRegistry("AddUser", vault, email, NilSlice, << >>,
                         ConfigAddUser(store.disk, p, cliKeyring, up, ser, vault, email))

RemoveUser(vault, email) ==
    /\ AfterRegistry("RemoveUser", vault, email, NilSlice, << >>,
                     ConfigRemoveUser(store.disk, vault, email))
    /\ UNCHANGED defaultProvider

RegisterFile(vault, path, mode, recipients) ==
    /\ AfterRegistry("RegisterFile", vault, path, recipients, << >>,
                     ConfigRegisterFile(store.disk, vault, path, mode, recipients))
    /\ UNCHANGED defaultProvider

SetFileRecipients(vault, path, recipients) ==
    /\ AfterRegistry("SetFileRecipients", vault, path, recipients, << >>,
                     ConfigSetFileRecipients(store.disk, vault, path, recipients))
    /\ UNCHANGED defaultProvider

AddFileRecipients(vault, path, recipients) ==
    /\ AfterRegistry("AddFileRecipients", vault, path, recipients, << >>,
                     ConfigAddFileRecipients(store.disk, vault, path, recipients))
    /\ UNCHANGED defaultProvider

RemoveFileRecipients(vault, path, recipients) ==
    /\ AfterRegistry("RemoveFileRecipients", vault, path, recipients, << >>,
                     ConfigRemoveFileRecipients(store.disk, vault, path, recipients))
    /\ UNCHANGED defaultProvider

ClearFileRecipients(vault, path) ==
    /\ AfterRegistry("ClearFileRecipients", vault, path, NilSlice, << >>,
                     ConfigClearFileRecipients(store.disk, vault, path))
    /\ UNCHANGED defaultProvider

\* GetEffectiveRecipients for a registered file, as the commands call it
\* with the file FindFileVault or the vault's list gave them
GetEffectiveRecipientsCall(vault, path) ==
    LET files == LoadVaultFiles(store.disk, vault)
    IN  /\ FileIndex(files, path) # 0
        /\ AfterRegistry("GetEffectiveRecipients", vault, path, NilSlice,
                         GetEffectiveRecipients(store.disk, vault, files[FileIndex(files, path)]),
                         Stored("nil", store.disk))
        /\ UNCHANGED defaultProvider

NextRegistry ==
    \/ Initialize
    \/ \E vault \in RegistryVaults, email \in RegistryEmails \cup {T(<<"n", "o", "b", "o", "d", "y">>)}, up, ser \in BOOLEAN :
           AddUser(vault, email, up, ser)
    \/ \E vault \in RegistryVaults, email \in RegistryEmails : RemoveUser(vault, email)
    \/ \E vault \in RegistryVaults, path \in RegistryPaths,
          mode \in {ModeValues, ModeFull, T(<<"a", "l", "l">>)}, recipients \in RecipientSlices :
           RegisterFile(vault, path, mode, recipients)
    \/ \E vault \in RegistryVaults, path \in RejectedPaths :
           RegisterFile(vault, path, ModeValues, NilSlice)
    \/ \E vault \in RegistryVaults, path \in RegistryPaths, recipients \in RecipientSlices :
           SetFileRecipients(vault, path, recipients)
    \/ \E vault \in RegistryVaults, path \in RegistryPaths, recipients \in RecipientSlices :
           AddFileRecipients(vault, path, recipients)
    \/ \E vault \in RegistryVaults, path \in RegistryPaths, recipients \in RecipientSlices :
           RemoveFileRecipients(vault, path, recipients)
    \/ \E vault \in RegistryVaults, path \in RegistryPaths : ClearFileRecipients(vault, path)
    \/ \E vault \in RegistryVaults, path \in RegistryPaths :
           GetEffectiveRecipientsCall(vault, path)

SpecRegistry == InitEngine /\ [][NextRegistry]_vars

---------------------------------------------------------------------------
(* The project state machine: shhh init, config set, vault create, vault   *)
(* remove, register and user add, on the store                             *)

\* config.NewConfig
NewConfig == [present |-> TRUE, DefaultVault |-> DefaultVault, GPGCopy |-> FALSE]

\* config.Load: the config of config.json, or a new one when there is no file
LoadConfig(disk) == IF disk.config.present THEN disk.config ELSE NewConfig

\* Config.Save
SaveConfig(disk, cfg) ==
    IF ~CanWriteFile(disk, ConfigPath) THEN Stored("WriteFailed", disk)
    ELSE Stored("nil", [MkdirAll(disk, ShhhPath) EXCEPT !.config = cfg])

\* the keys of Config.Set
KeyGPGCopy == T(<<"g", "p", "g", "_", "c", "o", "p", "y">>)
KeyDefaultVault == T(<<"d", "e", "f", "a", "u", "l", "t", "_", "v", "a", "u", "l", "t">>)

\* Config.Set: the config with the value, and whether the key can be set
ConfigSet(cfg, key, value) ==
    IF key = KeyGPGCopy
    THEN [ok |-> TRUE, cfg |-> [cfg EXCEPT !.GPGCopy = value \in {T(<<"t", "r", "u", "e">>), T(<<"1">>), T(<<"y", "e", "s">>)}]]
    ELSE IF key = KeyDefaultVault
    THEN [ok |-> TRUE, cfg |-> [cfg EXCEPT !.DefaultVault = value]]
    ELSE [ok |-> FALSE, cfg |-> cfg]

\* s2 after s1, unless s1 failed
AndThen(s1, Next(_)) == IF s1.err # "nil" THEN s1 ELSE Next(s1.disk)

\* runInit: the store, the config, and the empty registry of the default vault
runInit(disk) ==
    IF IsInitialized(disk) THEN Stored("AlreadyInitialized", disk)
    ELSE AndThen(StoreInitialize(disk),
                 LAMBDA d1 : AndThen(SaveConfig(d1, NewConfig),
                 LAMBDA d2 : AndThen(SaveUsers(d2, DefaultVault, << >>),
                 LAMBDA d3 : SaveFiles(d3, DefaultVault, << >>))))

\* runConfigSet
runConfigSet(disk, key, value) ==
    IF Unreadable(disk, ConfigPath) THEN Stored("LoadFailed", disk)
    ELSE IF ~ConfigSet(LoadConfig(disk), key, value).ok THEN Stored("UnknownKey", disk)
    ELSE SaveConfig(disk, ConfigSet(LoadConfig(disk), key, value).cfg)

\* runVaultCreate
runVaultCreate(disk, name) ==
    AndThen(StoreCreateVault(disk, name),
            LAMBDA d1 : AndThen(SaveUsers(d1, name, << >>),
            LAMBDA d2 : SaveFiles(d2, name, << >>)))

\* runVaultRemove; confirmed is --force, or the answer y or yes
runVaultRemove(disk, name, confirmed) ==
    IF name = DefaultVault THEN Stored("CannotRemoveDefault", disk)
    ELSE IF ~VaultExists(disk, name) THEN Stored("VaultDoesNotExist", disk)
    ELSE IF Unreadable(disk, VaultUsersPath(name)) \/ Unreadable(disk, VaultFilesPath(name))
    THEN Stored("LoadFailed", disk)
    ELSE IF ~confirmed THEN Stored("nil", disk)
    ELSE StoreRemoveVault(disk, name)

\* getVault of cmd/user.go: the vault of --vault ("" when the flag is not
\* given), or the default vault of the config
getVault(disk, userVault) ==
    IF userVault # Empty
    THEN IF ~VaultExists(disk, userVault) THEN [err |-> "VaultDoesNotExist", vault |-> Empty]
         ELSE [err |-> "nil", vault |-> userVault]
    ELSE IF Unreadable(disk, ConfigPath) THEN [err |-> "LoadFailed", vault |-> Empty]
    ELSE [err |-> "nil", vault |-> LoadConfig(disk).DefaultVault]

\* runUserAdd
runUserAdd(disk, p, ck, up, ser, userVault, email) ==
    IF getVault(disk, userVault).err # "nil" THEN Stored(getVault(disk, userVault).err, disk)
    ELSE ConfigAddUser(disk, p, ck, up, ser, getVault(disk, userVault).vault, email)

\* runRegister for a file that exists in the project, without --recipients
runRegister(disk, registerVault, path, mode) ==
    LET vault == IF registerVault = Empty THEN LoadConfig(disk).DefaultVault ELSE registerVault
    IN  IF registerVault = Empty /\ Unreadable(disk, ConfigPath) THEN Stored("LoadFailed", disk)
        ELSE IF ~VaultExists(disk, vault) THEN Stored("VaultDoesNotExist", disk)
        ELSE ConfigRegisterFile(disk, vault, path, mode, NilSlice)

\* the store after a command; vault is the vault the command named, path its
\* other argument
AfterCommand(op, vault, path, r) ==
    /\ store' = StoreCall(op, vault, path, NilSlice, r.err, << >>, store.disk, r.disk)
    /\ UNCHANGED <<cliKeyring, diskKeyring, call, run, worktree, goroutines>>

InitProject ==
    /\ AfterCommand("init", Empty, Empty, runInit(store.disk))
    /\ UNCHANGED defaultProvider

ConfigSetCommand(key, value) ==
    /\ IsInitialized(store.disk)
    /\ AfterCommand("config set", value, key, runConfigSet(store.disk, key, value))
    /\ UNCHANGED defaultProvider

VaultCreate(name) ==
    /\ IsInitialized(store.disk)
    /\ AfterCommand("vault create", name, Empty, runVaultCreate(store.disk, name))
    /\ UNCHANGED defaultProvider

VaultRemove(name, confirmed) ==
    /\ IsInitialized(store.disk)
    /\ AfterCommand("vault remove", name, Empty, runVaultRemove(store.disk, name, confirmed))
    /\ UNCHANGED defaultProvider

UserAdd(userVault, email, up) ==
    LET p == GetProvider(defaultProvider, diskKeyring)
        r == runUserAdd(store.disk, p, cliKeyring, up, TRUE, userVault, email)
    IN  /\ IsInitialized(store.disk)
        /\ defaultProvider' = IF r.err \in {"VaultDoesNotExist", "LoadFailed", "InvalidEmail"}
                              THEN defaultProvider ELSE p
        /\ AfterCommand("user add", userVault, email, r)

Register(registerVault, path) ==
    /\ IsInitialized(store.disk)
    /\ AfterCommand("register", registerVault, path,
                    runRegister(store.disk, registerVault, path, ModeValues))
    /\ UNCHANGED defaultProvider

\* the names given to vault create, vault remove and default_vault
ProjectVaults == {DefaultVault, T(<<"d", "e", "v">>), T(<<"p", "r", "o", "d">>)}

NextProject ==
    \/ InitProject
    \/ \E value \in ProjectVaults : ConfigSetCommand(KeyDefaultVault, value)
    \/ \E key \in {KeyGPGCopy, T(<<"v", "e", "r", "s", "i", "o", "n">>)} : ConfigSetCommand(key, T(<<"t", "r", "u", "e">>))
    \/ \E name \in ProjectVaults : VaultCreate(name)
    \/ \E name \in ProjectVaults, confirmed \in BOOLEAN : VaultRemove(name, confirmed)
    \/ \E userVault \in {Empty, T(<<"p", "r", "o", "d">>)}, up \in BOOLEAN : UserAdd(userVault, Alice, up)
    \/ \E registerVault \in {Empty, T(<<"p", "r", "o", "d">>)}, path \in RegistryPaths :
           Register(registerVault, path)

SpecProject == InitEngine /\ [][NextProject]_vars

---------------------------------------------------------------------------
(* The re-encryption state machine: user add, user remove, register,       *)
(* file set-recipients, encrypt and reencrypt on a registered file         *)

\* config.FindFileVault: the first vault, in the order of os.ReadDir, whose
\* registry has the path; Empty when there is none
FindFileVault(disk, path) ==
    LET with == {d[Len(d)] : d \in {v \in ListVaults(disk) :
                     FileIndex(LoadVaultFiles(disk, v[Len(v)]), path) # 0}}
    IN  IF with = {} THEN Empty ELSE SortTexts(with)[1]

\* runUserRemove
runUserRemove(disk, userVault, email) ==
    IF getVault(disk, userVault).err # "nil" THEN Stored(getVault(disk, userVault).err, disk)
    ELSE ConfigRemoveUser(disk, getVault(disk, userVault).vault, email)

\* runFileSetRecipients
runFileSetRecipients(disk, path, recipients) ==
    IF FindFileVault(disk, path) = Empty THEN Stored("FileNotRegistered", disk)
    ELSE ConfigSetFileRecipients(disk, FindFileVault(disk, path), path, Slice(recipients))

\* the registration of the file of the worktree, in the vault that has it
Registration ==
    LET files == LoadVaultFiles(store.disk, FindFileVault(store.disk, worktree.Path))
    IN  files[FileIndex(files, worktree.Path)]

\* the record of a command on the file of the worktree
RegisteredRun(op, content, opts, rt, res) ==
    [NoRun EXCEPT !.op = op, !.filename = worktree.Path, !.content = content,
                  !.opts = opts, !.res = res, !.provider = rt.p, !.ck = rt.ck,
                  !.up = rt.up]

\* the worktree after a command wrote res.out to the .enc file and, with a
\* GPG copy, the provider's encryption of the plaintext to the .gpg file
EncWritten(res, copy) ==
    IF res.err # "nil" THEN worktree
    ELSE [worktree EXCEPT !.enc = res.out,
                          !.gpg = IF worktree.GPGCopy /\ copy.res.err = "nil"
                                  THEN Doc("bytes", copy.res.out) ELSE @]

\* the options of the encryption of a registered file: its vault, its mode
\* and its effective recipients
RegisteredOptions(vault, file) ==
    Options(vault, file.Mode, GetEffectiveRecipients(store.disk, vault, file))

\* encryptFile of the encrypt command (reencrypt FALSE) and reencryptFile of
\* cmd/reencrypt.go (reencrypt TRUE), for the registered file: the plaintext,
\* or the .enc file decrypted in memory, is encrypted to the effective
\* recipients of the file and written to the .enc file
TransformRegistered(reencrypt, rt) ==
    /\ run.op = "idle"
    /\ FindFileVault(store.disk, worktree.Path) # Empty
    /\ Used(rt, worktree.Path, Registration.Mode)
    /\ \E opts \in {RegisteredOptions(FindFileVault(store.disk, worktree.Path), Registration)},
          source \in {IF ~reencrypt
                      THEN IF worktree.plain = NoFile
                           THEN Pass(NoContent, << >>, "SourceMissing")
                           ELSE Pass(worktree.plain, << >>, "nil")
                      ELSE IF worktree.enc = NoFile
                      THEN Pass(NoContent, << >>, "EncryptedMissing")
                      ELSE DecryptFileContent(rt, worktree.enc, worktree.Path)} :
           \* the model has no parser from bytes to a YAML document: a YAML
           \* file that was encrypted in full mode is not re-encrypted in
           \* values mode
           /\ (reencrypt /\ source.err = "nil" /\ opts.Mode = ModeValues) =>
                  Readable(source.out, DetectFormat(worktree.Path))
           /\ run' = [RegisteredRun(IF reencrypt THEN "reencryptFile" ELSE "encryptFile",
                                    IF reencrypt THEN worktree.enc ELSE worktree.plain,
                                    opts, rt,
                                    IF source.err # "nil"
                                    THEN Pass(NoContent, source.calls,
                                              IF reencrypt THEN "DecryptionFailed"
                                              ELSE source.err)
                                    ELSE IF opts.Recipients = << >>
                                    THEN Pass(NoContent, source.calls, "NoRecipientsAvailable")
                                    ELSE EncryptFileContent(rt, source.out, worktree.Path, opts))
                          EXCEPT !.plain = IF reencrypt THEN source.out ELSE NoContent]
           /\ worktree' = EncWritten(run'.res,
                                     ProviderEncrypt(rt.p, rt.ck, rt.up, Bytes(source.out),
                                                     run'.opts.Recipients, rt.nonce))
    /\ defaultProvider' = IF UsedProvider(run'.res) \/ (reencrypt /\ worktree.enc # NoFile)
                          THEN rt.p ELSE defaultProvider
    /\ UNCHANGED <<cliKeyring, diskKeyring, call, store, goroutines>>

\* a store command, between two commands on the file
BetweenRuns(op, vault, path, r) ==
    /\ run.op = "idle"
    /\ IsInitialized(store.disk)
    /\ AfterCommand(op, vault, path, r)

UserAddCommand(email) ==
    LET p == GetProvider(defaultProvider, diskKeyring)
    IN  /\ defaultProvider' = p
        /\ BetweenRuns("user add", Empty, email,
                       runUserAdd(store.disk, p, cliKeyring, TRUE, TRUE, Empty, email))

UserRemove(email) ==
    /\ BetweenRuns("user remove", Empty, email, runUserRemove(store.disk, Empty, email))
    /\ UNCHANGED defaultProvider

RegisterCommand(mode) ==
    /\ BetweenRuns("register", Empty, worktree.Path,
                   runRegister(store.disk, Empty, worktree.Path, mode))
    /\ UNCHANGED defaultProvider

FileSetRecipients(recipients) ==
    /\ BetweenRuns("file set-recipients", Empty, worktree.Path,
                   runFileSetRecipients(store.disk, worktree.Path, recipients))
    /\ UNCHANGED defaultProvider

\* the project after shhh init, with a file to register in it: the file is
\* not yet encrypted; GetEffectiveGPGCopy says yes for one file and no for
\* the other
InitReencrypt ==
    /\ defaultProvider = NilProvider
    /\ diskKeyring = << >>
    /\ cliKeyring = {Entity(1, TRUE), Entity(2, FALSE)}
    /\ call = Idle
    /\ run = NoRun
    /\ worktree \in {Worktree(T(<<"s", ".", "y", "a", "m", "l">>), Empty, Empty, FALSE, << >>, StructureYAML),
                     Worktree(T(<<"f", ".", "e", "n", "v">>), Empty, Empty, TRUE, << >>, PlainENV)}
    /\ store = StoreCall("init", Empty, Empty, NilSlice, "nil", << >>, NoDisk, runInit(NoDisk).disk)
    /\ goroutines = << >>

NextReencrypt ==
    \/ \E email \in RegistryEmails : UserAddCommand(email)
    \/ \E email \in RegistryEmails : UserRemove(email)
    \/ \E mode \in {ModeValues, ModeFull} : RegisterCommand(mode)
    \/ \E recipients \in {<<Alice>>, <<Alice, Bob>>} : FileSetRecipients(recipients)
    \/ \E reencrypt, up \in BOOLEAN, nonce \in Nonces, now \in Times :
           TransformRegistered(reencrypt, Here(up, nonce, now, LiteralOrder, FALSE))
    \/ ReturnCommand

SpecReencrypt == InitReencrypt /\ [][NextReencrypt]_vars

---------------------------------------------------------------------------
(* The decrypt command over a project of several registered files: one    *)
(* file, the files of a vault (--vault), the files of every vault (--all). *)
(* In this specification worktree is the sequence of the registered files *)
(* of the project, each with its plaintext and its .enc file. The command *)
(* first decides which files it decrypts (the prompt is part of that),    *)
(* then decrypts them one after the other; no other command runs between  *)

\* the answer typed at an overwrite prompt is lowered and trimmed, and only
\* "y" and "yes" confirm
Confirms(answer) == TrimSpace(ToLower(answer)) \in {T(<<"y">>), T(<<"y", "e", "s">>)}

\* the lines typed at the prompt
Answers == {(T(<<"y">>) \o <<Ch.nl>>), (<<Ch.sp>> \o T(<<"Y", "E", "S">>) \o <<Ch.nl>>), <<Ch.nl>>}

\* what a decrypt command did with one registered file
FileResult(path, calls, err) == [arg |-> path, backend |-> calls, err |-> err]

\* what a decrypt command is about to do: the positions in the work tree of
\* the files it decrypts, and the error it returns when it decrypts none
Plan(files, err) == [files |-> files, err |-> err]

\* the positions in the work tree of the files registered in the vaults
RegisteredIn(disk, wt, vaults) ==
    {i \in 1..Len(wt) : \E v \in vaults : FileIndex(LoadVaultFiles(disk, v), wt[i].Path) # 0}

\* decryptFile with the prompt left out: an existing plaintext is written
\* over without --force and without an answer
decryptFile_NoPrompt(wt, i, force, answer) ==
    IF wt[i].enc = NoFile THEN Plan({}, "EncryptedMissing") ELSE Plan({i}, "running")

\* decryptFile(s, vault, fileReg), up to the read of the .enc file: without
\* --force an existing plaintext is written over only after the answer y or
\* yes
decryptFile(wt, i, force, answer) ==
    IF wt[i].enc = NoFile THEN Plan({}, "EncryptedMissing")
    ELSE IF ~force /\ wt[i].plain # NoFile /\ ~Confirms(answer) THEN Plan({}, "Skipped")
    ELSE Plan({i}, "running")

\* decryptSingleFile(s, file): the vault of the file is looked up
decryptSingleFile(disk, wt, file, force, answer) ==
    IF FindFileVault(disk, file) = Empty THEN Plan({}, "FileNotRegistered")
    ELSE decryptFile(wt, CHOOSE i \in 1..Len(wt) : wt[i].Path = file, force, answer)

\* decryptVaultFiles(s, vault) and decryptAllFiles(s), up to the loop: the
\* files of the vault, or of every vault, are collected, and one prompt is
\* shown for all the existing plaintexts
decryptCollectedFiles(wt, collected, force, answer) ==
    IF collected = {} THEN Plan({}, "nil")
    ELSE IF ~force /\ (\E i \in collected : wt[i].plain # NoFile) /\ ~Confirms(answer)
    THEN Plan({}, "Aborted")
    ELSE Plan(collected, "running")

\* runDecrypt: --all, --vault <vault>, or one file
runDecrypt(disk, wt, all, vault, file, force, answer) ==
    IF all
    THEN decryptCollectedFiles(wt, RegisteredIn(disk, wt, {d[Len(d)] : d \in ListVaults(disk)}),
                               force, answer)
    ELSE IF vault = Empty THEN decryptSingleFile(disk, wt, file, force, answer)
    ELSE IF ~VaultExists(disk, vault) THEN Plan({}, "VaultDoesNotExist")
    ELSE decryptCollectedFiles(wt, RegisteredIn(disk, wt, {vault}), force, answer)

\* a decrypt command runs: filename is its argument, content the line typed
\* at the prompt, opts.Mode the flag --force, opts.Recipients the paths of the
\* files it decrypts, res.calls what it did with each file so far, res.err
\* "running" until it returns
DecryptRun(op, arg, force, answer, rt, files, err) ==
    [NoRun EXCEPT !.op = op, !.filename = arg, !.content = Doc("bytes", answer),
                  !.opts = Options(Empty, IF force THEN T(<<"f", "o", "r", "c", "e">>) ELSE Empty, files),
                  !.res = Pass(NoContent, << >>, err),
                  !.provider = rt.p, !.ck = rt.ck, !.up = rt.up]

\* the paths of the files at the positions, in the order of the work tree
PathsAt(wt, positions) ==
    LET Kept(paths) == SelectSeq(paths, LAMBDA path : \E i \in positions : wt[i].Path = path)
    IN  Kept([i \in 1..Len(wt) |-> wt[i].Path])

\* shhh decrypt [--all | --vault <vault> | <file>] [--force], up to the first
\* file
Decrypt(all, vault, file, force, answer, rt) ==
    LET Planned(plan) ==
            run' = DecryptRun(IF all THEN "decrypt --all"
                              ELSE IF vault # Empty THEN "decrypt --vault" ELSE "decrypt",
                              IF all THEN Empty ELSE IF vault # Empty THEN vault ELSE file,
                              force, answer, rt, PathsAt(worktree, plan.files), plan.err)
    IN  /\ run.op = "idle"
        /\ ~rt.up => rt.p.kind = "fallback"
        /\ Planned(runDecrypt(store.disk, worktree, all, vault, file, force, answer))
        /\ UNCHANGED <<defaultProvider, cliKeyring, diskKeyring, call, worktree, store, goroutines>>

\* the command is in its loop
Decrypting == run.op \in {"decrypt", "decrypt --vault", "decrypt --all"} /\ run.res.err = "running"

\* the position in the work tree of the next file of the loop
NextFile == CHOOSE i \in 1..Len(worktree) : worktree[i].Path = run.opts.Recipients[Len(run.res.calls) + 1]

\* decryptFileNoPrompt(s, vault, fileReg), and decryptFile from the read of
\* the .enc file on, for the next file of the loop: the plaintext is written
\* only after DecryptFileContent returned without error; res.out is what was
\* decrypted
DecryptNextFile ==
    LET Done(d) ==
            /\ run' = [run EXCEPT !.res = Pass(d.out,
                                               Append(run.res.calls,
                                                      FileResult(worktree[NextFile].Path, d.calls,
                                                                 d.err)),
                                               "running")]
            /\ worktree' = IF run'.res.calls[Len(run'.res.calls)].err # "nil" THEN worktree
                           ELSE [worktree EXCEPT ![NextFile].plain = run'.res.out]
    IN  /\ Decrypting
        /\ Len(run.res.calls) < Len(run.opts.Recipients)
        /\ Done(IF worktree[NextFile].enc = NoFile THEN Pass(NoContent, << >>, "EncryptedMissing")
                ELSE DecryptFileContent(Runtime(run.provider, run.ck, run.up, 0, Empty,
                                                LiteralOrder, FALSE),
                                        worktree[NextFile].enc, worktree[NextFile].Path))
        /\ defaultProvider' = IF UsedProvider(run'.res) THEN run.provider ELSE defaultProvider
        /\ UNCHANGED <<cliKeyring, diskKeyring, call, store, goroutines>>

\* the loop is over: the command returns, with an error when a file failed
DecryptReturn ==
    /\ Decrypting
    /\ Len(run.res.calls) = Len(run.opts.Recipients)
    /\ run' = [run EXCEPT !.res.out = NoContent,
                          !.res.err = IF \A k \in 1..Len(run.res.calls) : run.res.calls[k].err = "nil"
                                      THEN "nil"
                                      ELSE IF run.op = "decrypt" THEN "DecryptionFailed"
                                      ELSE "FilesFailedToDecrypt"]
    /\ UNCHANGED <<defaultProvider, cliKeyring, diskKeyring, call, worktree, store, goroutines>>

\* the plaintexts of the registered files
DecryptFiles ==
    <<[f |-> File(T(<<"s", ".", "y", "a", "m", "l">>), StructureYAML), Vault |-> DefaultVault, Mode |-> ModeValues],
      [f |-> File(T(<<"g", ".", "t", "x", "t">>), TextBytes), Vault |-> DefaultVault, Mode |-> ModeFull],
      [f |-> File(T(<<"f", ".", "e", "n", "v">>), PlainENV), Vault |-> T(<<"d", "e", "v">>), Mode |-> ModeValues]>>

\* the .enc file an earlier shhh encrypt wrote for the recipient key k, whose
\* public key was in the keyring of gpg
EncFor(e, k) ==
    EncryptFileContent(Runtime(GetProvider(NilProvider, << >>), {Entity(k, FALSE)}, TRUE, 1,
                               Empty, LiteralOrder, FALSE),
                       e.f.content, e.f.name,
                       Options(e.Vault, e.Mode, <<KeyEmail[k]>>)).out

\* a registered file on disk: its plaintext is there (edited since the
\* encryption) or not; its .enc file is missing (key 0), or encrypted to
\* Alice (key 1), whose key is in the keyring, or to Bob alone (key 2), whose
\* private key is not
OnDisk(e, there, k) ==
    [Worktree(e.f.name, e.Vault, e.Mode, FALSE, <<Alice>>,
              IF there THEN AddEntry(e.f.content, [k |-> T(<<"e", "x", "t", "r", "a">>), v |-> T(<<"p", "w", "!">>), t |-> "str"])
              ELSE NoFile)
        EXCEPT !.enc = IF k = 0 THEN NoFile ELSE EncFor(e, k)]

\* the .enc files of the project: that of the file in full mode is missing
\* or undecryptable, the others are there
EncKeys == {<<1, 0, 1>>, <<1, 2, 1>>, <<2, 0, 1>>, <<2, 2, 1>>}

\* the first n registered files on disk
RECURSIVE FilesOnDisk(_, _, _)
FilesOnDisk(n, there, keys) ==
    IF n = 0 THEN << >>
    ELSE Append(FilesOnDisk(n - 1, there, keys), OnDisk(DecryptFiles[n], there[n], keys[n]))

\* the project of the decrypt commands, after init, vault create dev and the
\* registration of the three files: two in the default vault, one in dev
InitDecrypt ==
    /\ defaultProvider = NilProvider
    /\ diskKeyring = << >>
    /\ cliKeyring = {Entity(1, TRUE), Entity(2, FALSE)}
    /\ call = Idle
    /\ run = NoRun
    /\ \E there \in [1..3 -> BOOLEAN], keys \in EncKeys :
           worktree = FilesOnDisk(Len(DecryptFiles), there, keys)
    /\ \E d0 \in {runInit(NoDisk).disk} :
       \E d1 \in {StoreCreateVault(d0, DecryptFiles[3].Vault).disk} :
       \E d2 \in {ConfigRegisterFile(d1, DefaultVault, DecryptFiles[1].f.name, ModeValues, NilSlice)} :
       \E d3 \in {ConfigRegisterFile(d2.disk, DefaultVault, DecryptFiles[2].f.name, ModeFull, NilSlice)} :
           store = StoreCall("register", DecryptFiles[3].Vault, DecryptFiles[3].f.name, NilSlice,
                             "nil", << >>, d3.disk,
                             ConfigRegisterFile(d3.disk, DecryptFiles[3].Vault,
                                                DecryptFiles[3].f.name, ModeValues, NilSlice).disk)
    /\ goroutines = << >>

NextDecrypt ==
    \/ \E all, force, up \in BOOLEAN, vault \in ProjectVaults \cup {Empty},
          file \in {T(<<"s", ".", "y", "a", "m", "l">>), T(<<"g", ".", "t", "x", "t">>), T(<<"f", ".", "e", "n", "v">>), T(<<"x", ".", "y", "a", "m", "l">>)}, answer \in Answers :
           \* one command form at a time
           /\ all => (vault = Empty /\ file = T(<<"s", ".", "y", "a", "m", "l">>))
           /\ vault # Empty => file = T(<<"s", ".", "y", "a", "m", "l">>)
           /\ Decrypt(all, vault, file, force, answer, Here(up, 0, Empty, LiteralOrder, FALSE))
    \/ DecryptNextFile
    \/ DecryptReturn
    \/ ~Decrypting /\ ReturnCommand

SpecDecrypt == InitDecrypt /\ [][NextDecrypt]_vars

---------------------------------------------------------------------------
(* The marker state machine: a marker that EncryptValue returned comes     *)
(* back with a whitespace character in its payload, as a wrapped or        *)
(* re-indented file has it, and is given to DecryptValue                   *)

\* the characters \s of encPattern stands for: tab, newline, form feed,
\* carriage return, space
Whitespace == {9, 10, 12, 13, 32}

\* how far into the payload the whitespace may stand
MaxGap == 6

\* the marker with character c after the first at characters of its payload
Wrapped(marker, at, c) ==
    SubSeq(marker, 1, Len(EncPrefix) + at) \o <<c>>
    \o SubSeq(marker, Len(EncPrefix) + at + 1, Len(marker))

\* crypto.DecryptValue of the marker EncryptValue has just returned, with a
\* whitespace character put into its payload
DecryptWrapped(at, c, up) ==
    /\ call.op = "EncryptValue"
    /\ call.res.err = "nil"
    /\ at <= Len(Payload(call.res.out))
    /\ DecryptValueCall(Wrapped(call.res.out, at, c), call.pt, call.rcpts, up)

NextMarker ==
    \/ \E es \in TestEntityLists : SetProvider(NativeProvider(diskKeyring \o es))
    \/ \E pt \in Plaintexts, rs \in RecipientLists, n \in Nonces, up \in BOOLEAN :
           EncryptValueCall(pt, rs, n, up)
    \/ \E at \in 0..MaxGap, c \in Whitespace, up \in BOOLEAN : DecryptWrapped(at, c, up)
    \/ Return

SpecMarker == InitProvider /\ [][NextMarker]_vars

---------------------------------------------------------------------------
(* The lazy default under parallel calls: goroutines of a caller run the   *)
(* engine on independent files; each engine call begins with GetProvider,  *)
(* whose reads and writes of defaultProvider nothing orders                *)

\* how many engine calls run in parallel
MaxGoroutines == 3

\* the file of the n-th parallel call: f1.yaml, f2.yaml, ...
ParallelFile(n) == <<102, 48 + n>> \o T(<<".", "y", "a", "m", "l">>)

\* a *fallbackProvider: the provider at the address the allocation gave it
Allocated(p, addr) == [kind |-> p.kind, keyring |-> p.keyring, addr |-> addr]

\* the address in the handle; 0 is the nil pointer
Address(handle) == IF handle.kind = "nil" THEN 0 ELSE handle.addr

\* a goroutine in GetProvider: the step it is at, the pointer it read in the
\* nil test, the instance it allocated and the pointer it returned
Goroutine(file, pc, seen, made, got) ==
    [file |-> file, pc |-> pc, seen |-> seen, made |-> made, got |-> got]

\* the addresses allocated so far
Allocations == {goroutines[g].made : g \in 1..Len(goroutines)} \ {0}

\* goroutine g takes its step and becomes next; the handle is written by the
\* step named store only
Step(g, pc, next) ==
    /\ g \in 1..Len(goroutines)
    /\ goroutines[g].pc = pc
    /\ goroutines' = [goroutines EXCEPT ![g] = next]
    /\ UNCHANGED <<cliKeyring, diskKeyring, call, run, worktree, store>>

\* go func() { crypto.EncryptFileContent(content, file, opts) }(): the engine
\* call of the next file starts and comes to GetProvider
Go ==
    /\ Len(goroutines) < MaxGoroutines
    /\ goroutines' = Append(goroutines,
                            Goroutine(ParallelFile(Len(goroutines) + 1), "test", 0, 0, 0))
    /\ UNCHANGED <<defaultProvider, cliKeyring, diskKeyring, call, run, worktree, store>>

\* if defaultProvider == nil
TestNil(g) ==
    /\ Step(g, "test",
            [goroutines[g] EXCEPT !.seen = Address(defaultProvider),
                                  !.pc = IF defaultProvider.kind = "nil" THEN "new" ELSE "return"])
    /\ UNCHANGED defaultProvider

\* native := NewNativeGPG(); cli := NewCLIGPG();
\* &fallbackProvider{primary: native, fallback: cli}
NewFallback(g) ==
    /\ Step(g, "new", [goroutines[g] EXCEPT !.made = Cardinality(Allocations) + 1,
                                            !.pc = "store"])
    /\ UNCHANGED defaultProvider

\* defaultProvider = &fallbackProvider{...}
StoreDefault(g) ==
    /\ Step(g, "store", [goroutines[g] EXCEPT !.pc = "return"])
    /\ defaultProvider' = Allocated(GetProvider(NilProvider, diskKeyring), goroutines[g].made)

\* return defaultProvider: the read races with the other goroutines' writes;
\* a build returns what the handle holds now, or keeps in a register what
\* this goroutine read in the test or wrote
ReturnDefault(g, reload) ==
    /\ Step(g, "return",
            [goroutines[g] EXCEPT
                 !.got = IF reload THEN Address(defaultProvider)
                         ELSE IF goroutines[g].made # 0 THEN goroutines[g].made
                         ELSE goroutines[g].seen,
                 !.pc = "done"])
    /\ UNCHANGED defaultProvider

InitLazy ==
    /\ defaultProvider = NilProvider
    /\ diskKeyring \in DiskKeyrings
    /\ cliKeyring = {}
    /\ call = Idle
    /\ run = NoRun
    /\ worktree = NoWorktree
    /\ store = NoStore
    /\ goroutines = << >>

NextLazy ==
    \/ Go
    \/ \E g \in 1..MaxGoroutines : TestNil(g)
    \/ \E g \in 1..MaxGoroutines : NewFallback(g)
    \/ \E g \in 1..MaxGoroutines : StoreDefault(g)
    \/ \E g \in 1..MaxGoroutines, reload \in BOOLEAN : ReturnDefault(g, reload)

SpecLazy == InitLazy /\ [][NextLazy]_vars

---------------------------------------------------------------------------
(* Properties of the providers *)

\* the e-mails of a recipient list, lower-cased
RecipientSet(rcpts) == {ToLower(rcpts[i]) : i \in 1..Len(rcpts)}

\* provider p, with gpg's key store ck behind it if it is the fallback
\* provider, holds the private key of one of the recipients
HoldsPrivateKeyOf(p, ck, rcpts) ==
    \/ \E i \in 1..Len(p.keyring) :
           p.keyring[i].priv /\ ToLower(p.keyring[i].email) \in RecipientSet(rcpts)
    \/ /\ p.kind = "fallback"
       /\ \E e \in ck : e.priv /\ ToLower(e.email) \in RecipientSet(rcpts)

\* C6: a value that EncryptValue encrypted to the recipients R decrypts, under a
\* provider that can run its backends, to the original plaintext if and only if
\* the provider holds the private key of a member of R
C6_DecryptIffRecipient ==
    (call.op = "DecryptValue" /\ call.rcpts # << >> /\ call.up) =>
        ((call.res.err = "nil" /\ call.res.out = call.pt)
            <=> HoldsPrivateKeyOf(call.provider, call.ck, call.rcpts))

\* the built-in backend was asked to encrypt
NativeEncryptCalled == call.op = "EncryptValue" /\ call.calls # << >>

\* a recipient of the call that no entity of the built-in keyring matches
Unresolved(r) ==
    \A i \in 1..Len(call.provider.keyring) :
        ToLower(call.provider.keyring[i].email) # ToLower(r)

\* C7: the built-in backend's Encrypt returns an error and no ciphertext when a
\* recipient cannot be resolved in its keyring, and a ciphertext it returns is
\* addressed to a key of every requested recipient
C7_AllOrNothing ==
    NativeEncryptCalled =>
        /\ (\E i \in 1..Len(call.rcpts) : Unresolved(call.rcpts[i]))
               => (call.primary.err # "nil" /\ call.primary.out = Empty)
        /\ call.primary.err = "nil" =>
               /\ MessageOK(call.primary.out)
               /\ \A i \in 1..Len(call.rcpts) :
                      \E k \in MessageKeys(call.primary.out) :
                          ToLower(KeyEmail[k]) = ToLower(call.rcpts[i])

\* C7 witness: two recipients were requested, one of them resolvable, and the
\* built-in backend refused
C7_Witness ==
    /\ NativeEncryptCalled
    /\ Len(call.rcpts) = 2
    /\ \E i \in 1..2 : Unresolved(call.rcpts[i])
    /\ \E i \in 1..2 : ~Unresolved(call.rcpts[i])
    /\ call.primary.err = "RecipientNotFound"

\* the call went through a fallbackProvider
ViaFallback(op) == call.op = op /\ call.provider.kind = "fallback" /\ call.calls # << >>

\* the shell-out backend was called
FallbackCalled == \E i \in 1..Len(call.calls) : call.calls[i] = "fallback"

\* C8: fallbackProvider.LookupKey calls the shell-out backend exactly when the
\* built-in backend returned NotFound; otherwise the built-in result, success or
\* error, is the result
C8_LookupKeyFallback ==
    ViaFallback("LookupKey") =>
        /\ FallbackCalled <=> call.primary.err = "ErrKeyNotFound"
        /\ ~FallbackCalled => call.res = call.primary

\* C8 witness: the built-in backend failed with another error than NotFound
\* while gpg has the key, and that error came back
C8_Witness ==
    /\ ViaFallback("LookupKey")
    /\ call.primary.err = "SerializeError"
    /\ call.up /\ CliMatching(call.ck, call.email) # {}
    /\ call.res.err = "SerializeError"

\* C9: fallbackProvider.ImportPublicKey calls the shell-out backend exactly
\* when the built-in backend returned NotFound; otherwise the built-in result,
\* success or error, is the result
C9_ImportFallback ==
    ViaFallback("ImportPublicKey") =>
        /\ FallbackCalled <=> call.primary.err = "ErrKeyNotFound"
        /\ ~FallbackCalled => call.res = call.primary

\* C10: fallbackProvider.Decrypt calls the shell-out backend exactly when the
\* built-in backend returned NoPrivateKey; otherwise the built-in result,
\* success or error, is the result
C10_DecryptFallback ==
    ViaFallback("DecryptValue") =>
        /\ FallbackCalled <=> call.primary.err = "ErrNoPrivateKey"
        /\ ~FallbackCalled => call.res = call.primary

\* C10 witness: the built-in backend holds a private key that is not addressed
\* and fails to read the message, gpg holds an addressed one, and the built-in
\* error came back
C10_Witness ==
    /\ ViaFallback("DecryptValue")
    /\ call.primary.err = "ReadError"
    /\ call.up /\ HoldsPrivateKeyOf(call.provider, call.ck, call.rcpts)
    /\ call.res.err = "ReadError"
    /\ ~FallbackCalled

\* the built-in backend was asked to decrypt a value that EncryptValue produced
NativeDecryptCalled == call.op = "DecryptValue" /\ call.rcpts # << >> /\ call.calls # << >>

\* the keys the value of the call is addressed to
AddressedKeys == {k \in KeyIds : ToLower(KeyEmail[k]) \in RecipientSet(call.rcpts)}

\* C11: the built-in backend's Decrypt returns NoPrivateKey exactly when no
\* private key of its keyring is one the message is addressed to, be the
\* keyring without private keys or with private keys of others only
C11_NoPrivateKeySignal ==
    NativeDecryptCalled =>
        (call.primary.err = "ErrNoPrivateKey"
            <=> PrivateKeys(call.provider.keyring) \cap AddressedKeys = {})

\* the step is a call that went through GetProvider
GetProviderCalled == call' # call /\ call'.calls # << >>

\* the step is a SetProvider call
SetProviderStep == call' = call /\ defaultProvider' # defaultProvider

\* q is the instance p, perhaps with keys imported into its keyring since
SameInstance(p, q) ==
    /\ q.kind = p.kind
    /\ Len(q.keyring) >= Len(p.keyring)
    /\ SubSeq(q.keyring, 1, Len(p.keyring)) = p.keyring

\* C12: GetProvider returns the provider of the handle when one is set; when
\* the handle is nil it returns a Fallback Provider over the built-in backend
\* (with the keyring found on disk) and the shell-out backend, and that
\* instance is then the handle; the handle changes at no other step than a
\* SetProvider call
C12_ActiveProvider ==
    [][ /\ GetProviderCalled =>
            /\ defaultProvider.kind # "nil" => call'.provider = defaultProvider
            /\ defaultProvider.kind = "nil" =>
                   (call'.provider.kind = "fallback" /\ call'.provider.keyring = diskKeyring)
            /\ SameInstance(call'.provider, defaultProvider')
        /\ (~GetProviderCalled /\ ~SetProviderStep) => defaultProvider' = defaultProvider
      ]_vars

\* C12 witness: a call got the Fallback Provider that an earlier call had
\* composed and imported a key into, not one composed anew from the disk
C12_Witness ==
    /\ call.op = "LookupKey"
    /\ call.provider.kind = "fallback"
    /\ call.provider.keyring # diskKeyring
    /\ defaultProvider = call.provider

---------------------------------------------------------------------------
(* Properties of the engine *)

\* a scalar leaf of a document: where it is and what it holds
Leaf(path, value) == [path |-> path, value |-> value]

RECURSIVE YAMLLeaves(_, _)
\* the scalars of a yaml.Node tree in value position, outside "_shhh"
YAMLLeaves(node, path) ==
    IF node.kind = "scalar" THEN {Leaf(path, node.value)}
    ELSE IF node.kind = "map"
    THEN UNION {YAMLLeaves(node.content[i + 1], Append(path, node.content[i].value)) :
                    i \in {j \in 1..Len(node.content) :
                               j % 2 = 1 /\ node.content[j].value # ShhhKey}}
    ELSE IF node.kind = "nest"
    THEN YAMLLeaves(node.content[1], path \o [i \in 1..node.levels |-> <<1>>])
    ELSE UNION {YAMLLeaves(node.content[i], Append(path, <<i>>)) :
                    i \in 1..Len(node.content)}

RECURSIVE JSONLeaves(_, _)
\* the strings, numbers and booleans of a JSON value, outside "_shhh"
JSONLeaves(value, path) ==
    IF value.t \in {"str", "num", "bool"} THEN {Leaf(path, value.v)}
    ELSE IF value.t = "obj"
    THEN UNION {JSONLeaves(value.kids[i].v, Append(path, value.kids[i].k)) :
                    i \in {j \in 1..Len(value.kids) : value.kids[j].k # ShhhKey}}
    ELSE IF value.t = "nest"
    THEN JSONLeaves(value.kids[1].v, path \o [i \in 1..value.levels |-> <<1>>])
    ELSE UNION {JSONLeaves(value.kids[i].v, Append(path, <<i>>)) : i \in 1..Len(value.kids)}

\* the key values of an INI file, outside the section "_shhh"
INILeaves(sections) ==
    UNION {{Leaf(<<sections[i].name, sections[i].keys[j].k>>, sections[i].keys[j].v) :
                j \in 1..Len(sections[i].keys)} :
               i \in {k \in 1..Len(sections) : sections[k].name # ShhhKey}}

\* the values of the KEY=value lines of an ENV file, without their quotes
ENVLeaves(content) ==
    LET lines == ScanLines(content)
        entry(i) ==
            LET trimmed == TrimSpace(lines[i])
            IN  /\ trimmed # Empty
                /\ ~HasPrefix(trimmed, <<35>>)
                /\ ~HasPrefix(trimmed, ShhhEnvPrefix)
                /\ IndexByte(lines[i], 61) # 0
        leaf(i) ==
            LET eqIndex == IndexByte(lines[i], 61)
            IN  Leaf(<<SubSeq(lines[i], 1, eqIndex - 1)>>,
                     unquoteValue(SubSeq(lines[i], eqIndex + 1, Len(lines[i]))).value)
    IN  {leaf(i) : i \in {j \in 1..Len(lines) : entry(j)}}

\* the scalar leaves of a content of the format, the metadata left out
Leaves(content, format) ==
    IF format = "yaml" THEN YAMLLeaves(content.v, << >>)
    ELSE IF format = "json" THEN JSONLeaves(content.v, << >>)
    ELSE IF format = "ini" THEN INILeaves(content.v)
    ELSE ENVLeaves(Bytes(content))

\* a leaf that EncryptValues is to encrypt
IsPlain(l) == l.value # Empty /\ ~IsEncrypted(l.value)

\* the transform was called on the value
TransformCalledOn(value) == \E i \in 1..Len(run.res.calls) : run.res.calls[i].arg = value

\* the leaf has a marker in its place in the output
Replaced(l, out) == \E o \in out : o.path = l.path /\ IsEncrypted(o.value)

\* the engine call in progress went by the values of a format
InValuesMode == run.opts.Mode = ModeValues /\ DetectFormat(run.filename) # "unknown"

\* the provider of the call can run its backends and holds the private key of
\* a recipient
HoldsRecipientKey == run.up /\ HoldsPrivateKeyOf(run.provider, run.ck, run.opts.Recipients)

\* C1: a plaintext document of one of the four formats that was encrypted in
\* values mode decrypts, under a provider that holds the private key of a
\* recipient, to the same bytes
C1_ValuesRoundTrip ==
    (run.op = "DecryptFileContent" /\ ~run.again /\ InValuesMode /\ HoldsRecipientKey) =>
        (run.res.err = "nil" /\ Bytes(run.res.out) = Bytes(run.plain))

\* C2: any content that was encrypted in full mode, or in values mode under a
\* name of unknown format, with any options, decrypts under a provider that
\* holds the private key of a recipient to the same bytes
C2_FullRoundTrip ==
    (run.op = "DecryptFileContent" /\ ~InValuesMode /\ HoldsRecipientKey) =>
        (run.res.err = "nil" /\ Bytes(run.res.out) = Bytes(run.plain))

\* C3: when a document with markers in it is encrypted again, every marker
\* stays as it is and the transform is not called on it, and every non-empty
\* plaintext scalar that was added has a marker in its place
C3_IdempotentEncryption ==
    (run.op = "EncryptFileContent" /\ run.again /\ run.res.err = "nil") =>
        LET format == DetectFormat(run.filename)
            out == Leaves(run.res.out, format)
        IN  \A l \in Leaves(run.content, format) :
                /\ IsEncrypted(l.value) => (l \in out /\ ~TransformCalledOn(l.value))
                /\ IsPlain(l) => (Replaced(l, out) /\ TransformCalledOn(l.value))

\* C4: after a successful encryption in values mode every non-empty scalar leaf
\* of the input that is no marker and not under "_shhh" has a marker in its
\* place, and its value occurs nowhere in the bytes written, metadata included
C4_NoPlaintextLeakage ==
    (run.op = "EncryptFileContent" /\ InValuesMode /\ run.res.err = "nil") =>
        LET format == DetectFormat(run.filename)
            out == Leaves(run.res.out, format)
            text == Bytes(run.res.out)
        IN  \A l \in Leaves(run.content, format) :
                IsPlain(l) =>
                    /\ Replaced(l, out)
                    /\ TransformCalledOn(l.value)
                    /\ ~Contains(text, l.value)

\* the document of TestValueModePreservesStructure was encrypted in values mode
StructureEncrypted ==
    /\ run.op = "EncryptFileContent"
    /\ run.opts.Mode = ModeValues
    /\ DetectFormat(run.filename) = "yaml"
    /\ run.content = StructureYAML
    /\ run.res.err = "nil"

\* the value the output has under database, at the key
StructureValue(key) ==
    (CHOOSE l \in Leaves(run.res.out, "yaml") : l.path = <<<<1>>, T(<<"d", "a", "t", "a", "b", "a", "s", "e">>), key>>).value

\* the keys database: and host: are in the bytes written, secret123 is not, and
\* password holds a marker
KeysPreserved ==
    LET text == Bytes(run.res.out)
    IN  /\ Contains(text, T(<<"d", "a", "t", "a", "b", "a", "s", "e", ":">>))
        /\ Contains(text, T(<<"h", "o", "s", "t", ":">>))
        /\ {l.path : l \in Leaves(run.res.out, "yaml")}
               = {l.path : l \in Leaves(run.content, "yaml")}
        /\ ~Contains(text, T(<<"s", "e", "c", "r", "e", "t", "1", "2", "3">>))
        /\ IsEncrypted(StructureValue(T(<<"p", "a", "s", "s", "w", "o", "r", "d">>)))

\* C5 as stated: encrypting {database: {host: localhost, password: secret123}}
\* in values mode keeps the keys database: and host:, keeps the value
\* localhost as plaintext, and turns secret123 into a marker
C5_KeepsLocalhost ==
    StructureEncrypted =>
        /\ KeysPreserved
        /\ StructureValue(T(<<"h", "o", "s", "t">>)) = T(<<"l", "o", "c", "a", "l", "h", "o", "s", "t">>)
        /\ Contains(Bytes(run.res.out), T(<<"l", "o", "c", "a", "l", "h", "o", "s", "t">>))

\* C5: encrypting {database: {host: localhost, password: secret123}} in values
\* mode keeps the keys database: and host: and turns both values, localhost and
\* secret123, into markers; neither value is in the bytes written
C5_StructurePreserved ==
    StructureEncrypted =>
        /\ KeysPreserved
        /\ IsEncrypted(StructureValue(T(<<"h", "o", "s", "t">>)))
        /\ ~Contains(Bytes(run.res.out), T(<<"l", "o", "c", "a", "l", "h", "o", "s", "t">>))

\* C5 witness: the document was encrypted to Alice and the password is a marker
C5_Witness ==
    /\ StructureEncrypted
    /\ ~run.again
    /\ run.opts.Recipients = <<Alice>>
    /\ IsEncrypted(StructureValue(T(<<"p", "a", "s", "s", "w", "o", "r", "d">>)))

\* the engine call was refused for the size of its content, before any parser
\* read it and before any transform or provider call
RefusedForSize == run.res.err = "FileTooLarge" /\ run.res.calls = << >>

\* C13: EncryptFileContent and DecryptFileContent refuse a content of more than
\* 50 MiB before any parsing, transform call or provider call, in values mode,
\* in full mode and for a file of unknown format; a content of exactly 50 MiB
\* is not refused for its size
C13_SizeCeiling ==
    run.op \in {"EncryptFileContent", "DecryptFileContent"} =>
        /\ Size(run.content) > MaxFileSize => RefusedForSize
        /\ Size(run.content) = MaxFileSize => run.res.err # "FileTooLarge"

---------------------------------------------------------------------------
(* Properties of the parsers *)

\* a parser was called on a document
ParserCalled == run.op \in {"EncryptValues", "DecryptValues"}

RECURSIVE YAMLDeepest(_, _)
\* the greatest depth processNode would count at a node of the tree
YAMLDeepest(node, depth) ==
    LET Below(d) ==
            IF node.content = << >> THEN d
            ELSE LET ds == {YAMLDeepest(node.content[i], d + 1) : i \in 1..Len(node.content)}
                 IN  CHOOSE m \in ds : \A n \in ds : n <= m
    IN  Below(IF node.kind = "nest" THEN depth + node.levels - 1 ELSE depth)

RECURSIVE JSONDeepest(_, _)
\* the greatest depth processValue would count at a value of the document
JSONDeepest(value, depth) ==
    LET Below(d) ==
            IF value.kids = << >> THEN d
            ELSE LET ds == {JSONDeepest(value.kids[i].v, d + 1) : i \in 1..Len(value.kids)}
                 IN  CHOOSE m \in ds : \A n \in ds : n <= m
    IN  Below(IF value.t = "nest" THEN depth + value.levels - 1 ELSE depth)

\* the document given to the parser is nested deeper than the ceiling
TooDeep ==
    \/ run.content.rep = "yaml" /\ YAMLDeepest(run.content.v, 0) > MaxNestingDepth
    \/ run.content.rep = "json" /\ JSONDeepest(run.content.v, 0) > MaxNestingDepth

\* C14: when a YAML or JSON document is nested deeper than 100 levels,
\* EncryptValues and DecryptValues fail with the depth error and the function
\* they were given has not been called on any value of the document
C14_DepthCeiling ==
    (ParserCalled /\ TooDeep) =>
        (run.res.err = "DepthExceeded" /\ run.res.calls = << >>)

---------------------------------------------------------------------------
(* Properties of the commands *)

\* the function given to the parser returned an error from one of its calls
TransformFailed(res) == \E i \in 1..Len(res.calls) : res.calls[i].err # "nil"

\* a parser, or a command and the engine call it makes, runs and returns
CallReturns == run.op = "idle" /\ run'.op # "idle"

\* C15: if the function given to a parser fails on one value, EncryptValues and
\* DecryptValues return an error and no bytes, EncryptFileContent and
\* DecryptFileContent return an error and no content, and the encrypt and
\* decrypt commands leave the files on disk as they were
C15_AbortOnFailure ==
    [][ (CallReturns /\ TransformFailed(run'.res)) =>
            /\ run'.res.err # "nil"
            /\ run'.res.out = NoContent
            /\ worktree' = worktree
      ]_vars

\* a decrypt command overwriting an existing plaintext file has decrypted one
\* value and failed on the next
C15_Witness ==
    /\ run.op = "decryptFile"
    /\ worktree.plain # NoFile
    /\ Len(run.res.calls) > 1
    /\ run.res.calls[1].err = "nil"
    /\ TransformFailed(run.res)

---------------------------------------------------------------------------
(* Properties of the metadata *)

\* C16: for a document of any format without a metadata block and any
\* metadata, attaching the metadata succeeds, and stripping it from the
\* result gives the document back byte for byte
C16_StripInvertsAttach ==
    /\ run.op = "AddMetadata" => run.res.err = "nil"
    /\ run.op = "RemoveMetadata" =>
           (run.res.err = "nil" /\ Bytes(run.res.out) = Bytes(run.plain))

\* what GetFileMetadata is to return for the options of the encryption
AttachedMetadata(opts) == FileMetadata(T(<<"1">>), opts.Vault, opts.Mode, opts.Recipients)

\* C17: GetFileMetadata on what EncryptFileContent returned, in every format
\* and for the full-file envelope, gives version "1" and the vault, the mode
\* and the recipients of the options, the recipients in their order
C17_ReadInvertsAttach ==
    run.op = "GetFileMetadata" =>
        (run.res.err = "nil" /\ run.res.out = AttachedMetadata(run.opts))

\* the line that opens the metadata block in the text of a document
ShhhBlockLine(format) ==
    IF format = "yaml" THEN T(<<"_", "s", "h", "h", "h", ":">>)
    ELSE IF format = "json" THEN (<<Ch.sp>> \o <<Ch.sp>> \o <<Ch.dq>> \o T(<<"_", "s", "h", "h", "h">>) \o <<Ch.dq>> \o T(<<":">>) \o <<Ch.sp>> \o T(<<"{">>))
    ELSE IF format = "ini" THEN T(<<"[", "_", "s", "h", "h", "h", "]">>)
    ELSE ShhhEnvComment

\* the number of metadata blocks in the text of a document
MetadataBlocks(format, content) ==
    LET lines == Split(Bytes(content), Ch.nl)
    IN  Cardinality({i \in DOMAIN lines : lines[i] = ShhhBlockLine(format)})

\* the document carries one metadata block, and it reads as that of the options
OneBlockOf(opts, filename, content) ==
    LET Read(m) == m.err = "nil" /\ m.out = AttachedMetadata(opts)
    IN  /\ MetadataBlocks(DetectFormat(filename), content) = 1
        /\ Read(GetFileMetadata(content, filename))

\* C18: attaching metadata to a document that carries a metadata block gives
\* a document with exactly one metadata block, that of the metadata attached
\* last; attaching the same metadata again changes nothing; and a file that
\* is encrypted a second time carries one metadata block
C18_AttachOverwrites ==
    /\ (run.op = "AddMetadataAgain" /\ MetadataBlocks(DetectFormat(run.filename), run.content) = 1) =>
           /\ run.res.err = "nil"
           /\ OneBlockOf(run.opts, run.filename, run.res.out)
           /\ run.again => Bytes(run.res.out) = Bytes(run.content)
    /\ (run.op = "EncryptFileContent" /\ run.again /\ run.res.err = "nil") =>
           OneBlockOf(run.opts, run.filename, run.res.out)

---------------------------------------------------------------------------
(* Properties of the detection *)

\* the formats of the extensions, as the specification lists them
ExtensionFormats ==
    << <<T(<<".", "y", "a", "m", "l">>), "yaml">>, <<T(<<".", "y", "m", "l">>), "yaml">>, <<T(<<".", "j", "s", "o", "n">>), "json">>, <<T(<<".", "i", "n", "i">>), "ini">>,
       <<T(<<".", "c", "f", "g">>), "ini">>, <<T(<<".", "c", "o", "n", "f">>), "ini">>, <<T(<<".", "e", "n", "v">>), "env">> >>

\* the format listed for an extension, "unknown" for one that is not listed
FormatOf(ext) ==
    IF \E i \in DOMAIN ExtensionFormats : ExtensionFormats[i][1] = ext
    THEN ExtensionFormats[CHOOSE i \in DOMAIN ExtensionFormats : ExtensionFormats[i][1] = ext][2]
    ELSE "unknown"

\* what full-file decoding returns for the content of the call
FullFileDecoding ==
    LET Returned(d) ==
            Pass(IF d.err # "nil" THEN NoContent ELSE Doc("bytes", d.out), d.calls, d.err)
    IN  Returned(decryptFullFile(run.provider, run.ck, run.up, Bytes(run.content)))

\* C19: DetectFormat returns the format listed for the lower-cased extension
\* of the file name, whatever the content; EncryptFileContent in values mode
\* on a file of unknown format returns a full-file envelope; and
\* DecryptFileContent returns what full-file decoding returns exactly when the
\* content starts with the header, under every file name
C19_DetectionAndRouting ==
    /\ run.op = "DetectFormat" => run.res.out = FormatOf(ToLower(Ext(run.filename)))
    /\ (run.op = "EncryptFileContent" /\ run.opts.Mode = ModeValues /\ run.res.err = "nil"
        /\ FormatOf(ToLower(Ext(run.filename))) = "unknown") =>
           IsFullyEncrypted(Bytes(run.res.out))
    /\ run.op = "DecryptFileContent" =>
           (IsFullyEncrypted(Bytes(run.content)) <=> run.res = FullFileDecoding)

\* a file of unknown format was encrypted in values mode, and what came of it
\* is decrypted under the name of a YAML file
C19_Witness ==
    /\ run.op = "DecryptFileContent"
    /\ run.opts.Mode = ModeValues
    /\ DetectFormat(run.filename) = "yaml"
    /\ IsFullyEncrypted(Bytes(run.content))
    /\ run.res.err = "nil"
    /\ Bytes(run.res.out) = Bytes(run.plain)

---------------------------------------------------------------------------
(* Properties of the reserved key *)

RECURSIVE ReservedNodes(_)
\* the nodes of a yaml.Node tree that are the value of a key "_shhh"
ReservedNodes(node) ==
    IF node.kind = "scalar" THEN << >>
    ELSE IF node.kind = "map"
    THEN Concat([i \in 1..(Len(node.content) \div 2) |->
                    IF node.content[2 * i - 1].value = ShhhKey THEN <<node.content[2 * i]>>
                    ELSE ReservedNodes(node.content[2 * i])])
    ELSE Concat([i \in 1..Len(node.content) |-> ReservedNodes(node.content[i])])

RECURSIVE ReservedMembers(_)
\* the values of a JSON value that are the value of a key "_shhh"
ReservedMembers(value) ==
    Concat([i \in 1..Len(value.kids) |->
               IF value.kids[i].k = ShhhKey THEN <<value.kids[i].v>>
               ELSE ReservedMembers(value.kids[i].v)])

\* what a document holds under the reserved key: the nodes, the values, the
\* sections "_shhh", the lines that start with "_SHHH_"
ReservedContent(format, content) ==
    IF format = "yaml" THEN ReservedNodes(content.v)
    ELSE IF format = "json" THEN ReservedMembers(content.v)
    ELSE IF format = "ini" THEN SelectSeq(content.v, LAMBDA s : s.name = ShhhKey)
    ELSE SelectSeq(ScanLines(Bytes(content)),
                   LAMBDA line : HasPrefix(TrimSpace(line), ShhhEnvPrefix))

\* the values the metadata blocks of the model hold
ReservedValues == {ReservedEntries[i].v : i \in DOMAIN ReservedEntries}

\* C20: EncryptValues and DecryptValues of every format call the transform on
\* no value under the reserved key, and what the document holds under the
\* reserved key is in the output as it is in the input
C20_MetadataUntouched ==
    run.op \in {"EncryptValues", "DecryptValues"} =>
        /\ \A i \in DOMAIN run.res.calls : run.res.calls[i].arg \notin ReservedValues
        /\ run.res.err = "nil" =>
               ReservedContent(DetectFormat(run.filename), run.res.out)
                   = ReservedContent(DetectFormat(run.filename), run.content)

---------------------------------------------------------------------------
(* Properties of the recipients *)

\* C21: EncryptValue and EncryptFileContent, in values mode and in full
\* mode, return an error and no output when the list of recipients is empty,
\* whatever the document
C21_RecipientsRequired ==
    /\ (call.op = "EncryptValue" /\ call.rcpts = << >>) =>
           (call.res.err # "nil" /\ call.res.out = Empty)
    /\ (run.op = "EncryptFileContent" /\ run.opts.Recipients = << >>) =>
           (run.res.err # "nil" /\ run.res.out = NoContent)

---------------------------------------------------------------------------
(* Properties of the store *)

\* the names of the vaults of a disk, as Store.ListVaults returns them
VaultNamesOf(disk) == {d[Len(d)] : d \in ListVaults(disk)}

\* C22: the default vault cannot be removed. After Initialize, under any
\* sequence of CreateVault and RemoveVault calls: RemoveVault("default")
\* returns an error and changes nothing; the default vault always exists;
\* CreateVault of an existing or invalid name fails and leaves the set of
\* vaults unchanged; RemoveVault of a vault that does not exist fails.
C22_DefaultVaultKept ==
    /\ (store.op = "RemoveVault" /\ store.vault = DefaultVault) =>
           (store.err # "nil" /\ store.disk = store.before)
    /\ store.op # "none" => VaultExists(store.disk, DefaultVault)
    /\ (/\ store.op = "CreateVault"
        /\ (store.vault \in VaultNamesOf(store.before) \/ validateName(store.vault) # "nil")) =>
           (store.err # "nil" /\ VaultNamesOf(store.disk) = VaultNamesOf(store.before))
    /\ (store.op = "RemoveVault" /\ store.vault \notin VaultNamesOf(store.before)) =>
           store.err # "nil"

\* RemoveVault of a name that is no vault succeeded and took the default
\* vault with it
C22_DefaultVaultRemoved ==
    /\ store.op = "RemoveVault"
    /\ store.vault \notin VaultNamesOf(store.before)
    /\ store.err = "nil"
    /\ VaultExists(store.before, DefaultVault)
    /\ ~VaultExists(store.disk, DefaultVault)

---------------------------------------------------------------------------
(* Properties of the registry *)

\* the registered file the last registry operation was about, on a disk
FileOf(disk) ==
    LoadVaultFiles(disk, store.vault)[FileIndex(LoadVaultFiles(disk, store.vault), store.path)]

\* the e-mail addresses of the users of the vault of the last operation
AllVaultUsers == UserEmails(LoadVaultUsers(store.disk, store.vault))

\* C23: effective recipients. GetEffectiveRecipients returns the per-file
\* recipient list of the file when that list is not empty, and otherwise
\* the e-mail addresses of all users of the file's vault; after
\* ClearFileRecipients, and after a RemoveFileRecipients that removed every
\* per-file recipient, the file uses all vault users again.
C23_EffectiveRecipients ==
    /\ store.op = "GetEffectiveRecipients" =>
           store.out = IF FileOf(store.disk).Recipients.elems # << >>
                       THEN FileOf(store.disk).Recipients.elems
                       ELSE AllVaultUsers
    /\ (store.op = "ClearFileRecipients" /\ store.err = "nil") =>
           GetEffectiveRecipients(store.disk, store.vault, FileOf(store.disk)) = AllVaultUsers
    /\ (/\ store.op = "RemoveFileRecipients"
        /\ store.err = "nil"
        /\ \A i \in 1..Len(FileOf(store.before).Recipients.elems) :
               \E j \in 1..Len(store.rcpts.elems) :
                   store.rcpts.elems[j] = FileOf(store.before).Recipients.elems[i]) =>
           GetEffectiveRecipients(store.disk, store.vault, FileOf(store.disk)) = AllVaultUsers

\* RemoveFileRecipients has removed the last per-file recipient of a file
\* whose vault has users
C23_Witness ==
    /\ store.op = "RemoveFileRecipients"
    /\ store.err = "nil"
    /\ FileOf(store.before).Recipients.elems # << >>
    /\ FileOf(store.disk).Recipients = Slice(<< >>)
    /\ AllVaultUsers # << >>

\* every per-file recipient of every registered file of the vault is a
\* user of the vault
RecipientsAreUsers(disk, vault) ==
    \A i \in 1..Len(LoadVaultFiles(disk, vault)) :
        \A k \in 1..Len(LoadVaultFiles(disk, vault)[i].Recipients.elems) :
            HasUser(LoadVaultUsers(disk, vault), LoadVaultFiles(disk, vault)[i].Recipients.elems[k])

\* C24: per-file recipients are vault users. After any sequence of registry
\* operations on a vault every e-mail address in the per-file recipient list
\* of every registered file is a current user of that vault, and an
\* operation that would add a recipient who is no user fails and leaves the
\* registry unchanged.
C24_RecipientsAreUsers ==
    /\ \A vault \in RegistryVaults : RecipientsAreUsers(store.disk, vault)
    /\ (/\ store.op \in {"RegisterFile", "SetFileRecipients", "AddFileRecipients"}
        /\ NotAllUsers(LoadVaultUsers(store.before, store.vault), store.rcpts)) =>
           (store.err # "nil" /\ store.disk = store.before)

---------------------------------------------------------------------------
(* Properties of the project commands *)

\* C30: the configured default vault exists. After init and any sequence of
\* config set default_vault, vault create and vault remove commands, the
\* default_vault of the config names an existing vault, so that register
\* and the user commands without --vault operate on an existing vault.
C30_DefaultVaultConfigured ==
    /\ store.op # "none" =>
           VaultExists(store.disk, LoadConfig(store.disk).DefaultVault)
    /\ (store.op \in {"register", "user add"} /\ store.vault = Empty /\ store.err = "nil") =>
           VaultExists(store.before, LoadConfig(store.before).DefaultVault)

---------------------------------------------------------------------------
(* Properties of re-encryption *)

\* the recipients the metadata of a file's encrypted form records
RecordedRecipients(content, filename) == GetFileMetadata(content, filename).out.Recipients

\* somebody who holds the private key of this e-mail address, and no other
\* key, decrypts the encrypted file
OpensFor(email, content, filename) ==
    \E k \in KeyIds :
        /\ KeyEmail[k] = email
        /\ DecryptFileContent(Runtime(NativeProvider(<<Entity(k, TRUE)>>), {}, TRUE, 1, Empty,
                                      LiteralOrder, FALSE),
                              content, filename).err = "nil"

\* reencrypt has succeeded right after the user remove of an e-mail address
ReencryptedAfterRemove ==
    /\ store.op = "user remove"
    /\ store.err = "nil"
    /\ run.op = "reencryptFile"
    /\ run.res.err = "nil"

\* C25: re-encryption revokes removed users. After user remove of e from a
\* vault and then a successful reencrypt of the vault's file, e is not among
\* the recipients the file is encrypted to, nor among the recipients its
\* metadata records, whether the file uses all vault users or a per-file
\* recipient list.
C25_RemovedUserRevoked ==
    ReencryptedAfterRemove =>
        /\ \A i \in 1..Len(run.opts.Recipients) : run.opts.Recipients[i] # store.path
        /\ \A i \in 1..Len(RecordedRecipients(worktree.enc, worktree.Path)) :
               RecordedRecipients(worktree.enc, worktree.Path)[i] # store.path
        /\ ~OpensFor(store.path, worktree.enc, worktree.Path)

---------------------------------------------------------------------------
(* Properties of the decrypt command                                      *)

\* the command ran without --force and the line typed at its prompt, if any,
\* was not y or yes
NotConfirmed(r) == r.opts.Mode = Empty /\ ~Confirms(r.content.v)

\* DecryptFileContent of the .enc file of w fails under the provider and the
\* keyring of the run r, or there is no .enc file
DecryptionFails(w, r) ==
    \/ w.enc = NoFile
    \/ DecryptFileContent(Runtime(r.provider, r.ck, r.up, 0, Empty, LiteralOrder, FALSE),
                          w.enc, w.Path).err # "nil"

\* C26: without --force and without the answer y or yes, decrypt <file>,
\* decrypt --vault and decrypt --all leave every existing plaintext file as it
\* was; and a file whose decryption fails has its plaintext left as it was
\* (not written, not truncated, not created), whatever the flags. That is: a
\* step that changes a plaintext is a step of a decrypt command that decrypts
\* the file without error, and that was forced or confirmed if the plaintext
\* existed
C26_PlaintextKept ==
    [][ \A i \in 1..Len(worktree) :
            worktree'[i].plain # worktree[i].plain =>
                /\ Decrypting
                /\ worktree[i].plain # NoFile => ~NotConfirmed(run)
                /\ ~DecryptionFails(worktree[i], run)
      ]_vars

\* decrypt --all was answered with an empty line: it returned "Aborted", and
\* a plaintext is still there whose .enc file decrypts without error
C26_Witness ==
    /\ run.op = "decrypt --all"
    /\ NotConfirmed(run)
    /\ run.res.err = "Aborted"
    /\ \E i \in 1..Len(worktree) :
           /\ worktree[i].plain # NoFile
           /\ ~DecryptionFails(worktree[i], run)

\* decrypt --vault --force wrote one plaintext and failed on the other file of
\* the vault, whose plaintext is still there
C26_FailedKept ==
    /\ run.op = "decrypt --vault"
    /\ run.opts.Mode # Empty
    /\ run.res.err = "FilesFailedToDecrypt"
    /\ \E i \in 1..Len(worktree), k, l \in 1..Len(run.res.calls) :
           /\ worktree[i].plain # NoFile
           /\ run.res.calls[k].arg = worktree[i].Path
           /\ run.res.calls[k].err # "nil"
           /\ DecryptionFails(worktree[i], run)
           /\ run.res.calls[l].err = "nil"

\* decrypt <file> was answered with an empty line and skipped the file, whose
\* plaintext is still there
C26_Skipped ==
    /\ run.op = "decrypt"
    /\ NotConfirmed(run)
    /\ run.res.err = "Skipped"
    /\ \E i \in 1..Len(worktree) :
           /\ worktree[i].Path = run.filename
           /\ worktree[i].plain # NoFile
           /\ ~DecryptionFails(worktree[i], run)

---------------------------------------------------------------------------
(* Properties of the ENV quoting rule *)

\* the value of a KEY=VALUE line as it stands in the file, read the way
\* processLine reads it
LineValue(line) == unquoteValue(SubSeq(line, IndexByte(line, 61) + 1, Len(line)))

\* the characters after which a written value is to be quoted: whitespace, a
\* quote character, "#", "$", backslash, newline
HasQuotedCharacter(value) ==
    \E i \in 1..Len(value) :
        value[i] \in {Ch.sp, Ch.tab, Ch.cr, Ch.nl, Ch.dq, Ch.sq, 35, 36, Ch.bs}

\* a pass of the ENV parser that returned a document
ENVPass(op) ==
    /\ run.op = op
    /\ DetectFormat(run.filename) = "env"
    /\ run.res.err = "nil"

\* line i of the pass was transformed: the line written is another one
TransformedLine(i) ==
    ScanLines(Bytes(run.content))[i] # ScanLines(Bytes(run.res.out))[i]

\* line i is written by the rule: the transform was given the unquoted value,
\* and the result is quoted if and only if it holds a character to be quoted
\* or the value was quoted, then with the quote character it had
WrittenByRule(i) ==
    LET before == LineValue(ScanLines(Bytes(run.content))[i])
        after == LineValue(ScanLines(Bytes(run.res.out))[i])
    IN  /\ \E k \in 1..Len(run.res.calls) : run.res.calls[k].arg = before.value
        /\ after.wasQuoted <=> (HasQuotedCharacter(after.value) \/ before.wasQuoted)
        /\ before.wasQuoted => after.quoteChar = before.quoteChar

\* C27: ENV quoting rule: every KEY=VALUE line that EncryptValues or
\* DecryptValues transforms has its value unquoted before the transform, and
\* the written result is quoted if and only if it contains whitespace, a quote
\* character, "#", "$", backslash or newline, or the value was quoted in the
\* first place, then with its quote character; so KEY="secret" decrypts back
\* to the quoted form it had
C27_QuotingKept ==
    (ENVPass("EncryptValues") \/ ENVPass("DecryptValues")) =>
        /\ Len(ScanLines(Bytes(run.res.out))) = Len(ScanLines(Bytes(run.content)))
        /\ \A i \in 1..Len(ScanLines(Bytes(run.content))) :
               TransformedLine(i) => WrittenByRule(i)

\* the half of the rule that the code keeps: EncryptValues writes every line
\* it transforms by the rule
C27_EncryptKeepsQuoting ==
    ENVPass("EncryptValues") =>
        \A i \in 1..Len(ScanLines(Bytes(run.content))) :
            TransformedLine(i) => WrittenByRule(i)

\* EncryptValues has written a marker in the quotes the value had
C27_EncryptedQuoted ==
    /\ ENVPass("EncryptValues")
    /\ \E i \in 1..Len(ScanLines(Bytes(run.content))) :
           /\ TransformedLine(i)
           /\ LineValue(ScanLines(Bytes(run.content))[i]).wasQuoted
           /\ LineValue(ScanLines(Bytes(run.res.out))[i]).wasQuoted

\* DecryptValues has decrypted a quoted marker and written the plaintext
\* without quotes
C27_QuotesDropped ==
    /\ ENVPass("DecryptValues")
    /\ \E i \in 1..Len(ScanLines(Bytes(run.content))) :
           /\ TransformedLine(i)
           /\ LineValue(ScanLines(Bytes(run.content))[i]).wasQuoted
           /\ ~LineValue(ScanLines(Bytes(run.res.out))[i]).wasQuoted

---------------------------------------------------------------------------
(* Properties of markers with whitespace *)

\* the marker without the whitespace of its payload
Unwrapped(marker) ==
    EncPrefix \o SelectSeq(Payload(marker), LAMBDA c : c \notin Whitespace) \o EncSuffix

\* DecryptValue was given a marker with whitespace in its payload
WrappedCall ==
    /\ call.op = "DecryptValue"
    /\ IsEncrypted(call.data)
    /\ \E i \in 1..Len(Payload(call.data)) : Payload(call.data)[i] \in Whitespace

\* C28: marker whitespace tolerance: of every marker IsEncrypted recognises,
\* DecodeValue returns the payload with every whitespace character removed
\* (spaces, newlines, tabs, carriage returns), so DecryptValue of a marker with
\* whitespace in its payload returns what it returns for the marker without
\* the whitespace
C28_WhitespaceStripped ==
    WrappedCall =>
        /\ DecodeValue(call.data).ok
        /\ DecodeValue(call.data).data = Payload(Unwrapped(call.data))
        /\ call.res = DecryptValue(call.provider, call.ck, call.up, Unwrapped(call.data)).res

\* what the code keeps: newlines and spaces are removed by DecodeValue, and a
\* marker wrapped by "\n", " " or "\r" decrypts as the marker without them
C28_NewlinesTolerated ==
    WrappedCall =>
        /\ (\A i \in 1..Len(Payload(call.data)) : Payload(call.data)[i] \in {10, 32} \/ Payload(call.data)[i] \notin Whitespace)
               => DecodeValue(call.data).data = Payload(Unwrapped(call.data))
        /\ (\A i \in 1..Len(Payload(call.data)) : Payload(call.data)[i] \notin {9, 12})
               => call.res = DecryptValue(call.provider, call.ck, call.up, Unwrapped(call.data)).res

\* a marker wrapped by a newline was decrypted to the plaintext
C28_NewlineDecrypted ==
    /\ WrappedCall
    /\ \E i \in 1..Len(Payload(call.data)) : Payload(call.data)[i] = 10
    /\ call.res.err = "nil"
    /\ call.res.out = call.pt

\* a marker with a tab in its payload, whose key the provider holds, was
\* refused as bad base64
C28_TabRefused ==
    /\ WrappedCall
    /\ \E i \in 1..Len(Payload(call.data)) : Payload(call.data)[i] = 9
    /\ call.res.err = "Base64Error"
    /\ DecryptValue(call.provider, call.ck, call.up, Unwrapped(call.data)).res.err = "nil"

\* DecodeValue has left the carriage return of a marker in the payload
C28_CarriageReturnKept ==
    /\ WrappedCall
    /\ \E i \in 1..Len(DecodeValue(call.data).data) : DecodeValue(call.data).data[i] = 13

---------------------------------------------------------------------------
(* Properties of the lazy default under parallel calls *)

\* the goroutines whose GetProvider has returned
Returned == {g \in 1..Len(goroutines) : goroutines[g].pc = "done"}

\* every GetProvider call has returned
AllReturned == Len(goroutines) = MaxGoroutines /\ Returned = 1..MaxGoroutines

\* C29: lazy default under parallel calls: when several engine calls run in
\* parallel on independent files and no provider has been set, the default is
\* constructed at most once, all GetProvider calls return the same Fallback
\* Provider instance, and no caller has got another instance than the one
\* that is in the handle when all have returned
C29_OneInstance ==
    /\ Cardinality(Allocations) <= 1
    /\ \A g, h \in Returned : goroutines[g].got = goroutines[h].got
    /\ AllReturned => \A g \in Returned : goroutines[g].got = Address(defaultProvider)

\* what the code keeps: a call that finds the handle set constructs nothing,
\* every call returns an instance some call has constructed, and calls that
\* do not overlap with the first construction return the instance stored
C29_ReturnsConstructed ==
    /\ \A g \in Returned : goroutines[g].got \in Allocations
    /\ \A g \in 1..Len(goroutines) : goroutines[g].seen # 0 => goroutines[g].made = 0
    /\ Cardinality(Allocations) <= 1 =>
           \A g \in Returned : goroutines[g].got = Address(defaultProvider)

\* two calls have constructed a default each, and a caller holds an instance
\* that is not the one in the handle
C29_TwoInstances ==
    /\ AllReturned
    /\ Cardinality(Allocations) >= 2
    /\ \E g \in Returned : goroutines[g].got # Address(defaultProvider)

\* three calls one after the other, or overlapping after the store of the
\* first, have all returned the one instance
C29_OneConstructed ==
    /\ AllReturned
    /\ Cardinality(Allocations) = 1
    /\ \A g \in Returned : goroutines[g].got = Address(defaultProvider)

====
